---- MODULE Spec2Model ----
(***************************************************************************)
(* Model of llm-repl: the two-agent conversation orchestrator              *)
(* (src/commands/llmconvo.rs), the process-wide stop flag (src/signal.rs)  *)
(* and the provider capability as seen by its callers (src/providers).     *)
(*                                                                         *)
(* Text is a sequence of tokens.  A token is one character where the code  *)
(* looks at characters (whitespace for trim) and a whole word where it     *)
(* does not (role tags, the ": " and blank-line separators).               *)
(***************************************************************************)
EXTENDS Integers, Sequences, FiniteSets, TLC

\* ------------------------------------------------------------------ bounds
MaxTurnsBound == 2      \* max_turns ranges over 1..MaxTurnsBound
MaxItems == 2           \* items one chunk stream delivers before it must end

\* ------------------------------------------------------------- text helpers
IsWhitespace(c) == c \in {" ", "\n"}

RECURSIVE TrimStart(_)
TrimStart(s) ==
    IF s = <<>> THEN <<>>
    ELSE IF IsWhitespace(Head(s)) THEN TrimStart(Tail(s)) ELSE s

RECURSIVE TrimEnd(_)
TrimEnd(s) ==
    IF s = <<>> THEN <<>>
    ELSE IF IsWhitespace(s[Len(s)]) THEN TrimEnd(SubSeq(s, 1, Len(s) - 1)) ELSE s

\* str::trim
Trim(s) == TrimEnd(TrimStart(s))

\* format!("{}: {}", msg.role, msg.content)
FormatMessage(msg) == <<msg.role, ": ">> \o msg.content

\* .collect::<Vec<_>>().join("\n\n")
RECURSIVE JoinBlank(_)
JoinBlank(parts) ==
    IF parts = <<>> THEN <<>>
    ELSE IF Len(parts) = 1 THEN parts[1]
    ELSE parts[1] \o <<"\n\n">> \o JoinBlank(Tail(parts))

\* the pieces of a text, put end to end
RECURSIVE Flatten(_)
Flatten(ss) == IF ss = <<>> THEN <<>> ELSE Head(ss) \o Flatten(Tail(ss))

\* prompt_text of a turn: the whole history rendered
PromptText(h) == JoinBlank([i \in 1..Len(h) |-> FormatMessage(h[i])])

\* the text pushed onto full_response when a stream item is an error
STREAM_ERROR_MARK == <<" ", "[ Stream error ]">>

\* ---------------------------------------------------------------- providers
\* ProviderRegistry::new registers exactly these three
Providers == {"ollama", "groq", "gemini"}

\* providers whose constructor reads a credential from the environment
KeyedProviders == {"groq", "gemini"}

\* what the backend does with one HTTP call
Conds == {"ok", "transport", "http_status", "malformed"}

HasKey(keys, p) == IF p \in KeyedProviders THEN keys[p] ELSE TRUE

\* CheckReadiness as it would be if every provider were always ready
CheckReadiness_AlwaysOk(p, keys) == "Ok"

\* check_readiness
CheckReadiness(p, keys) == IF HasKey(keys, p) THEN "Ok" ELSE "Err"

\* get_models: "Ok" (a list) or "Err"
GetModels(p, keys, cond) ==
    IF ~HasKey(keys, p) THEN "Err"
    ELSE IF cond = "ok" THEN "Ok" ELSE "Err"

\* the open call of query_stream: "Some" (a chunk sequence), "None" or "Err"
QueryStreamOpen(p, keys, cond) ==
    CASE p = "ollama" -> IF cond = "transport" THEN "Err" ELSE "Some"
      [] p = "groq"   -> IF ~HasKey(keys, p) THEN "Err"
                         ELSE IF cond \in {"transport", "http_status"} THEN "Err"
                         ELSE "Some"
      [] p = "gemini" -> IF ~HasKey(keys, p) THEN "Err"
                         ELSE IF cond \in {"transport", "http_status"} THEN "Err"
                         ELSE "Some"

\* the single-shot query: "Ok" (a response), "Err" or "Panic"
QueryOutcome(p, keys, cond) ==
    CASE p = "ollama" -> IF cond \in {"transport", "http_status"} THEN "Err" ELSE "Ok"
      [] p = "groq"   -> "Panic"
      [] p = "gemini" -> IF ~HasKey(keys, p) THEN "Err"
                         ELSE IF cond = "ok" THEN "Ok" ELSE "Err"

\* model names a provider lists (get_models)
ModelsOf(p) ==
    CASE p = "ollama" -> {"llama3:latest"}
      [] p = "groq"   -> {"mixtral"}
      [] p = "gemini" -> {"models/gemini-pro"}

\* texts an Ok item of a provider's chunk sequence can carry
ChunkTexts(p) ==
    IF p = "ollama" THEN {<<>>, <<"a">>, <<" ">>} ELSE {<<"a">>, <<" ">>}

\* texts a successful single-shot query can return
Responses == {<<"a">>, <<" ", "b", "\n">>}

\* personas and topics typed in by the user (Editor ... unwrap_or_default)
Personas == {<<"P">>, <<"Q">>}
Topics == {<<"t">>}

\* ------------------------------------------------------------------- state
VARIABLES
    STOP_CONVERSATION_FLAG, \* signal.rs: the process-wide AtomicBool
    api_key,                \* per keyed provider: was the credential present at start-up
    pc,                     \* position of the task running run_conversation_loop
    llm1, llm2,             \* the two LlmInstance bindings
    max_turns,
    history,                \* Vec<ConvoMessage>
    current_speaker_idx,
    turn,                   \* the for-loop variable
    full_response,          \* accumulator of the streamed turn
    items,                  \* items the current stream has delivered
    outcome,                \* which return of run_conversation_loop was taken
    calls,                  \* provider operations invoked in this session, in order
    setup,                  \* the bindings as handed to run_conversation_loop
    sig_at,                 \* where the task was when the flag, clear at its last
                            \* sample by the loop, went false -> true
    err_turns,              \* turns whose chunk sequence delivered an Err item
    chunks,                 \* the Ok chunks the current turn's stream has yielded
    dkind,                  \* which provider's query_stream decoder is under study
    frames,                 \* the pieces the response body was put together from
    rest,                   \* bytes of the body the byte source has not delivered yet
    faulted,                \* the byte source has delivered a transport error
    buffer,                 \* the decoder's carry-over buffer (unfold state)
    dpc,                    \* position of the decoder closure
    out,                    \* items the chunk sequence has yielded, in order
    aligned,                \* every read so far carried exactly one complete line
    done_at,                \* 1 + Len(out) when the first done=true object or [DONE]
                            \* event was decoded, 0 if none was
    bytewise,               \* every read so far carried exactly one byte
    eof,                    \* the byte source has returned None
    current_provider,       \* state.rs: AppState.current_provider (under its Mutex)
    current_model,          \* state.rs: AppState.current_model (under its Mutex)
    sp                      \* per caller that has called set_provider: its latest call

vars == <<STOP_CONVERSATION_FLAG, api_key, pc, llm1, llm2, max_turns, history,
          current_speaker_idx, turn, full_response, items, outcome, calls,
          setup, sig_at, err_turns, chunks,
          dkind, frames, rest, faulted, buffer, dpc, out, aligned, done_at,
          bytewise, eof, current_provider, current_model, sp>>

\* the state of one query_stream chunk sequence
decVars == <<dkind, frames, rest, faulted, buffer, dpc, out, aligned, done_at,
            bytewise, eof>>

\* the state of the REPL process around it
replVars == <<STOP_CONVERSATION_FLAG, api_key, pc, llm1, llm2, max_turns, history,
              current_speaker_idx, turn, full_response, items, outcome, calls,
              setup, sig_at, err_turns, chunks>>

\* the provider and model selection of AppState and the calls changing it
appVars == <<current_provider, current_model, sp>>

convoVars == <<pc, llm1, llm2, max_turns, history, current_speaker_idx, turn,
               full_response, items, outcome, calls, setup, sig_at, err_turns,
               chunks>>

NoInstance == [provider |-> "none", model |-> "none", persona |-> <<>>]
NoSignal == [turn |-> -1, at |-> "none"]

\* positions at which a provider call or chunk stream of the turn is in flight
InFlight == {"open", "streaming", "fallback"}

\* positions inside the for loop
InTurn == {"top", "interrupted", "open", "streaming", "fallback", "sleep"}

is_stop_requested == STOP_CONVERSATION_FLAG

\* no chunk sequence is being decoded byte by byte
DecoderOff ==
    /\ dkind = "none"
    /\ frames = <<>>
    /\ rest = <<>>
    /\ faulted = FALSE
    /\ buffer = <<>>
    /\ dpc = "off"
    /\ out = <<>>
    /\ aligned = TRUE
    /\ done_at = 0
    /\ bytewise = TRUE
    /\ eof = FALSE

\* a model name as the backends list it
ModelName(p) ==
    CASE p = "ollama" -> <<"l", "3">>
      [] p = "groq"   -> <<"g">>
      [] p = "gemini" -> <<"m">>

\* a caller that has not called set_provider
NoCall == [pc |-> "idle", name |-> "none", models |-> <<>>, result |-> "none",
           checked |-> FALSE, wrote |-> FALSE, n |-> 0]

Callers == {1, 2}

\* AppState::new: provider "ollama", model "llama3:latest"
AppNew ==
    /\ current_provider = "ollama"
    /\ current_model = ModelName("ollama")
    /\ sp = << >>

\* no session is running and the flag is false at construction (signal.rs
\* line 12)
ConvoIdle ==
    /\ STOP_CONVERSATION_FLAG = FALSE
    /\ pc = "idle"
    /\ llm1 = NoInstance
    /\ llm2 = NoInstance
    /\ max_turns = 0
    /\ history = <<>>
    /\ current_speaker_idx = 0
    /\ turn = 0
    /\ full_response = <<>>
    /\ items = 0
    /\ outcome = "none"
    /\ calls = <<>>
    /\ setup = <<NoInstance, NoInstance>>
    /\ sig_at = NoSignal
    /\ err_turns = {}
    /\ chunks = <<>>

\* A REPL process whose credentials were all present at start-up: every
\* provider passes select_llm_instance's readiness check, so this start state
\* reaches every session any other credential configuration can reach.
ReplInit ==
    /\ api_key = [p \in KeyedProviders |-> TRUE]
    /\ ConvoIdle

Init == ReplInit /\ DecoderOff /\ AppNew

\* ------------------------------------------------------------------ signals
\* signal_hook::flag::register: SIGINT/SIGTERM/SIGHUP/SIGQUIT store true, at any time
Signal ==
    /\ STOP_CONVERSATION_FLAG' = TRUE
    /\ sig_at' = IF STOP_CONVERSATION_FLAG THEN sig_at
                  ELSE [turn |-> IF pc \in InTurn THEN turn ELSE -1, at |-> pc]
    /\ UNCHANGED <<api_key, pc, llm1, llm2, max_turns, history, current_speaker_idx,
                   turn, full_response, items, outcome, calls, setup, err_turns>>
    /\ UNCHANGED chunks
    /\ UNCHANGED <<decVars, appVars>>

\* ------------------------------------------------------------- session setup
\* select_llm_instance: a registered provider that is ready and lists a model
Instances(keys) ==
    { [provider |-> p, model |-> m, persona |-> per] :
        p \in {q \in Providers : CheckReadiness(q, keys) = "Ok"
                                 /\ GetModels(q, keys, "ok") = "Ok"},
        m \in UNION {ModelsOf(q) : q \in Providers},
        per \in Personas }

\* LlmConvoCommand::execute up to the call of run_conversation_loop
StartSession ==
    /\ pc = "idle"
    /\ \E a \in Instances(api_key), b \in Instances(api_key), n \in 1..MaxTurnsBound :
          /\ a.model \in ModelsOf(a.provider)
          /\ b.model \in ModelsOf(b.provider)
          /\ llm1' = a
          /\ llm2' = b
          /\ setup' = <<a, b>>
          /\ max_turns' = n
    /\ pc' = "entered"
    /\ history' = <<>>
    /\ current_speaker_idx' = 0
    /\ turn' = 0
    /\ full_response' = <<>>
    /\ items' = 0
    /\ outcome' = "none"
    /\ calls' = <<>>
    /\ err_turns' = {}
    /\ UNCHANGED <<STOP_CONVERSATION_FLAG, api_key, sig_at>>
    /\ chunks' = <<>>
    /\ UNCHANGED <<decVars, appVars>>

\* SeedSession as it would be without the reset_stop_flag() of line 170
SeedSession_NoReset ==
    /\ pc = "entered"
    /\ \E topic \in Topics :
          history' = << [role |-> "system", content |-> llm1.persona],
                        [role |-> "user", content |-> topic] >>
    /\ current_speaker_idx' = 0
    /\ turn' = 0
    /\ pc' = "top"
    /\ UNCHANGED <<STOP_CONVERSATION_FLAG, api_key, llm1, llm2, max_turns, full_response,
                   items, outcome, calls, setup, sig_at, err_turns>>
    /\ UNCHANGED chunks
    /\ UNCHANGED <<decVars, appVars>>

\* SeedSession as it would be if the system message were agent-B's persona
SeedSession_SeedsB ==
    /\ pc = "entered"
    /\ STOP_CONVERSATION_FLAG' = FALSE
    /\ \E topic \in Topics :
          history' = << [role |-> "system", content |-> llm2.persona],
                        [role |-> "user", content |-> topic] >>
    /\ current_speaker_idx' = 0
    /\ turn' = 0
    /\ pc' = "top"
    /\ UNCHANGED <<api_key, llm1, llm2, max_turns, full_response, items, outcome,
                   calls, setup, sig_at, err_turns>>
    /\ UNCHANGED chunks
    /\ UNCHANGED <<decVars, appVars>>

\* run_conversation_loop lines 170-176: reset_stop_flag, seed the history
SeedSession ==
    /\ pc = "entered"
    /\ STOP_CONVERSATION_FLAG' = FALSE
    /\ \E topic \in Topics :
          history' = << [role |-> "system", content |-> llm1.persona],
                        [role |-> "user", content |-> topic] >>
    /\ current_speaker_idx' = 0
    /\ turn' = 0
    /\ pc' = "top"
    /\ UNCHANGED <<api_key, llm1, llm2, max_turns, full_response, items, outcome,
                   calls, setup, sig_at, err_turns>>
    /\ UNCHANGED chunks
    /\ UNCHANGED <<decVars, appVars>>

\* ------------------------------------------------------------------ a turn
\* current_llm as it would be if both agents spoke through agent-A's binding
current_llm_First == llm1

current_llm == IF current_speaker_idx = 0 THEN llm1 ELSE llm2
speaker_role_str == IF current_speaker_idx = 0 THEN "LLM_1" ELSE "LLM_2"

\* Call as it would be if each agent were prompted with its own persona as
\* the system entry
Call_OwnPersona(op) ==
    [turn |-> turn, op |-> op, role |-> speaker_role_str,
     provider |-> current_llm.provider, model |-> current_llm.model,
     prompt |-> PromptText(<<[role |-> "system", content |-> current_llm.persona]>>
                           \o Tail(history))]

\* Call as it would be if the prompt were only the newest transcript entry
Call_LastOnly(op) ==
    [turn |-> turn, op |-> op, role |-> speaker_role_str,
     provider |-> current_llm.provider, model |-> current_llm.model,
     prompt |-> PromptText(<<history[Len(history)]>>)]

Call(op) ==
    [turn |-> turn, op |-> op, role |-> speaker_role_str,
     provider |-> current_llm.provider, model |-> current_llm.model,
     prompt |-> PromptText(history)]

\* line 179: the flag is seen set at the top of the turn
ObserveStop ==
    /\ pc = "top"
    /\ turn < max_turns
    /\ is_stop_requested
    /\ pc' = "interrupted"
    /\ UNCHANGED <<STOP_CONVERSATION_FLAG, api_key, llm1, llm2, max_turns, history,
                   current_speaker_idx, turn, full_response, items, outcome, calls,
                   setup, sig_at, err_turns>>
    /\ UNCHANGED chunks
    /\ UNCHANGED <<decVars, appVars>>

\* ReturnInterrupted as it would be without the reset_stop_flag() of line 181
ReturnInterrupted_KeepsFlag ==
    /\ pc = "interrupted"
    /\ outcome' = "Cancelled"
    /\ pc' = "done"
    /\ UNCHANGED <<STOP_CONVERSATION_FLAG, api_key, llm1, llm2, max_turns, history,
                   current_speaker_idx, turn, full_response, items, calls, setup,
                   sig_at, err_turns>>
    /\ UNCHANGED chunks
    /\ UNCHANGED <<decVars, appVars>>

\* lines 180-182: reset_stop_flag(); return Ok(())
ReturnInterrupted ==
    /\ pc = "interrupted"
    /\ STOP_CONVERSATION_FLAG' = FALSE
    /\ outcome' = "Cancelled"
    /\ pc' = "done"
    /\ UNCHANGED <<api_key, llm1, llm2, max_turns, history, current_speaker_idx,
                   turn, full_response, items, calls, setup, sig_at, err_turns>>
    /\ UNCHANGED chunks
    /\ UNCHANGED <<decVars, appVars>>

\* BeginTurn as it would be with the loop written 0..=max_turns
BeginTurn_OffByOne ==
    /\ pc = "top"
    /\ turn <= max_turns
    /\ ~is_stop_requested
    /\ calls' = Append(calls, Call("query_stream"))
    /\ sig_at' = NoSignal
    /\ pc' = "open"
    /\ UNCHANGED <<STOP_CONVERSATION_FLAG, api_key, llm1, llm2, max_turns, history,
                   current_speaker_idx, turn, full_response, items, outcome,
                   setup, err_turns>>
    /\ UNCHANGED chunks
    /\ UNCHANGED <<decVars, appVars>>

\* lines 179, 185-199: flag seen clear, prompt built, query_stream called
BeginTurn ==
    /\ pc = "top"
    /\ turn < max_turns
    /\ ~is_stop_requested
    /\ calls' = Append(calls, Call("query_stream"))
    /\ sig_at' = NoSignal
    /\ pc' = "open"
    /\ UNCHANGED <<STOP_CONVERSATION_FLAG, api_key, llm1, llm2, max_turns, history,
                   current_speaker_idx, turn, full_response, items, outcome,
                   setup, err_turns>>
    /\ UNCHANGED chunks
    /\ UNCHANGED <<decVars, appVars>>

\* line 200: Ok(Some(stream))
StreamOpened ==
    /\ pc = "open"
    /\ \E cond \in Conds : QueryStreamOpen(current_llm.provider, api_key, cond) = "Some"
    /\ full_response' = <<>>
    /\ items' = 0
    /\ pc' = "streaming"
    /\ UNCHANGED <<STOP_CONVERSATION_FLAG, api_key, llm1, llm2, max_turns, history,
                   current_speaker_idx, turn, outcome, calls, setup, sig_at, err_turns>>
    /\ chunks' = <<>>
    /\ UNCHANGED <<decVars, appVars>>

\* lines 221-223: Ok(None) | Err(_) => the single-shot query is called
StreamUnavailable ==
    /\ pc = "open"
    /\ \E cond \in Conds :
          QueryStreamOpen(current_llm.provider, api_key, cond) \in {"None", "Err"}
    /\ calls' = Append(calls, Call("query"))
    /\ pc' = "fallback"
    /\ UNCHANGED <<STOP_CONVERSATION_FLAG, api_key, llm1, llm2, max_turns, history,
                   current_speaker_idx, turn, full_response, items, outcome,
                   setup, sig_at, err_turns>>
    /\ UNCHANGED chunks
    /\ UNCHANGED <<decVars, appVars>>

\* TurnSucceeds as it would be without the swap of line 249
TurnSucceeds_NoSwap(response_content) ==
    /\ history' = Append(history, [role |-> speaker_role_str,
                                   content |-> Trim(response_content)])
    /\ current_speaker_idx' = current_speaker_idx
    /\ pc' = "sleep"

\* TurnSucceeds as it would be if the new message replaced the newest entry
TurnSucceeds_Overwrites(response_content) ==
    /\ history' = [history EXCEPT ![Len(history)] =
                       [role |-> speaker_role_str, content |-> Trim(response_content)]]
    /\ current_speaker_idx' = 1 - current_speaker_idx
    /\ pc' = "sleep"

\* lines 233-250 for Ok(response_content): push, swap the speaker, sleep
TurnSucceeds(response_content) ==
    /\ history' = Append(history, [role |-> speaker_role_str,
                                   content |-> Trim(response_content)])
    /\ current_speaker_idx' = 1 - current_speaker_idx
    /\ pc' = "sleep"

\* lines 240-245 for Err(e): reset_stop_flag(); return Err(e)
TurnFails ==
    /\ STOP_CONVERSATION_FLAG' = FALSE
    /\ outcome' = "Error"
    /\ pc' = "done"

\* StreamChunk as it would be if the loop of line 204 polled the flag per chunk
StreamChunk_Preempts ==
    /\ pc = "streaming"
    /\ items < MaxItems
    /\ IF is_stop_requested
       THEN /\ pc' = "interrupted"
            /\ UNCHANGED <<full_response, items, chunks>>
       ELSE /\ \E chunk \in ChunkTexts(current_llm.provider) :
                  /\ full_response' = full_response \o chunk
                  /\ chunks' = Append(chunks, chunk)
            /\ items' = items + 1
            /\ pc' = pc
    /\ UNCHANGED <<STOP_CONVERSATION_FLAG, api_key, llm1, llm2, max_turns, history,
                   current_speaker_idx, turn, outcome, calls, setup, sig_at, err_turns>>
    /\ UNCHANGED <<decVars, appVars>>

\* StreamChunk as it would be without the push_str of line 209
StreamChunk_Drops ==
    /\ pc = "streaming"
    /\ items < MaxItems
    /\ \E chunk \in ChunkTexts(current_llm.provider) :
          /\ full_response' = full_response
          /\ chunks' = Append(chunks, chunk)
    /\ items' = items + 1
    /\ UNCHANGED <<STOP_CONVERSATION_FLAG, api_key, pc, llm1, llm2, max_turns, history,
                   current_speaker_idx, turn, outcome, calls, setup, sig_at, err_turns>>
    /\ UNCHANGED <<decVars, appVars>>

\* lines 204-210: an Ok chunk is printed, flushed and accumulated
StreamChunk ==
    /\ pc = "streaming"
    /\ items < MaxItems
    /\ \E chunk \in ChunkTexts(current_llm.provider) :
          /\ full_response' = full_response \o chunk
          /\ chunks' = Append(chunks, chunk)
    /\ items' = items + 1
    /\ UNCHANGED <<STOP_CONVERSATION_FLAG, api_key, pc, llm1, llm2, max_turns, history,
                   current_speaker_idx, turn, outcome, calls, setup, sig_at, err_turns>>
    /\ UNCHANGED <<decVars, appVars>>

\* line 208: flushing stdout fails, `?` returns Err(ReplError::Io) at once
StreamFlushFails ==
    /\ pc = "streaming"
    /\ items < MaxItems
    /\ outcome' = "IoError"
    /\ pc' = "done"
    /\ UNCHANGED <<STOP_CONVERSATION_FLAG, api_key, llm1, llm2, max_turns, history,
                   current_speaker_idx, turn, full_response, items, calls, setup,
                   sig_at, err_turns>>
    /\ UNCHANGED chunks
    /\ UNCHANGED <<decVars, appVars>>

\* lines 211-215, 218-219, 233-250: an Err item
StreamItemError ==
    /\ pc = "streaming"
    /\ items < MaxItems
    /\ full_response' = full_response \o STREAM_ERROR_MARK
    /\ items' = items + 1
    /\ err_turns' = err_turns \cup {turn}
    /\ TurnSucceeds(full_response')
    /\ UNCHANGED <<STOP_CONVERSATION_FLAG, api_key, llm1, llm2, max_turns, turn,
                   outcome, calls, setup, sig_at>>
    /\ UNCHANGED chunks
    /\ UNCHANGED <<decVars, appVars>>

\* lines 204, 218-219, 233-250: the stream ends
StreamEnds ==
    /\ pc = "streaming"
    /\ TurnSucceeds(full_response)
    /\ UNCHANGED <<STOP_CONVERSATION_FLAG, api_key, llm1, llm2, max_turns, turn,
                   full_response, items, outcome, calls, setup, sig_at, err_turns>>
    /\ UNCHANGED chunks
    /\ UNCHANGED <<decVars, appVars>>

\* lines 223-227, 233-250: query returned Ok(response)
QuerySucceeds ==
    /\ pc = "fallback"
    /\ \E cond \in Conds : QueryOutcome(current_llm.provider, api_key, cond) = "Ok"
    /\ \E response \in Responses : TurnSucceeds(response)
    /\ UNCHANGED <<STOP_CONVERSATION_FLAG, api_key, llm1, llm2, max_turns, turn,
                   full_response, items, outcome, calls, setup, sig_at, err_turns>>
    /\ UNCHANGED chunks
    /\ UNCHANGED <<decVars, appVars>>

\* lines 228, 240-245: query returned Err(e)
QueryFails ==
    /\ pc = "fallback"
    /\ \E cond \in Conds : QueryOutcome(current_llm.provider, api_key, cond) = "Err"
    /\ TurnFails
    /\ UNCHANGED <<api_key, llm1, llm2, max_turns, history, current_speaker_idx,
                   turn, full_response, items, calls, setup, sig_at, err_turns>>
    /\ UNCHANGED chunks
    /\ UNCHANGED <<decVars, appVars>>

\* providers/mod.rs line 17: the provider has no query of its own
QueryPanics ==
    /\ pc = "fallback"
    /\ \E cond \in Conds : QueryOutcome(current_llm.provider, api_key, cond) = "Panic"
    /\ outcome' = "Panic"
    /\ pc' = "panicked"
    /\ UNCHANGED <<STOP_CONVERSATION_FLAG, api_key, llm1, llm2, max_turns, history,
                   current_speaker_idx, turn, full_response, items, calls, setup,
                   sig_at, err_turns>>
    /\ UNCHANGED chunks
    /\ UNCHANGED <<decVars, appVars>>

\* NextTurn as it would be if the loop stepped by two
NextTurn_Skips ==
    /\ pc = "sleep"
    /\ turn' = turn + 2
    /\ pc' = "top"
    /\ UNCHANGED <<STOP_CONVERSATION_FLAG, api_key, llm1, llm2, max_turns, history,
                   current_speaker_idx, full_response, items, outcome, calls, setup,
                   sig_at, err_turns>>
    /\ UNCHANGED chunks
    /\ UNCHANGED <<decVars, appVars>>

\* line 250 and the loop step: the 200 ms sleep is over
NextTurn ==
    /\ pc = "sleep"
    /\ turn' = turn + 1
    /\ pc' = "top"
    /\ UNCHANGED <<STOP_CONVERSATION_FLAG, api_key, llm1, llm2, max_turns, history,
                   current_speaker_idx, full_response, items, outcome, calls, setup,
                   sig_at, err_turns>>
    /\ UNCHANGED chunks
    /\ UNCHANGED <<decVars, appVars>>

\* FinishMaxTurns as it would be without the reset_stop_flag() of line 255
FinishMaxTurns_KeepsFlag ==
    /\ pc = "top"
    /\ turn >= max_turns
    /\ outcome' = "MaxTurnsReached"
    /\ pc' = "done"
    /\ UNCHANGED <<STOP_CONVERSATION_FLAG, api_key, llm1, llm2, max_turns, history,
                   current_speaker_idx, turn, full_response, items, calls, setup,
                   sig_at, err_turns>>
    /\ UNCHANGED chunks
    /\ UNCHANGED <<decVars, appVars>>

\* FinishMaxTurns as it would be if the loop's exit waited for the flag
FinishMaxTurns_WaitsForFlag ==
    /\ pc = "top"
    /\ turn >= max_turns
    /\ is_stop_requested
    /\ STOP_CONVERSATION_FLAG' = FALSE
    /\ outcome' = "MaxTurnsReached"
    /\ pc' = "done"
    /\ UNCHANGED <<api_key, llm1, llm2, max_turns, history, current_speaker_idx,
                   turn, full_response, items, calls, setup, sig_at, err_turns>>
    /\ UNCHANGED chunks
    /\ UNCHANGED <<decVars, appVars>>

\* lines 253-256: the loop is exhausted
FinishMaxTurns ==
    /\ pc = "top"
    /\ turn >= max_turns
    /\ STOP_CONVERSATION_FLAG' = FALSE
    /\ outcome' = "MaxTurnsReached"
    /\ pc' = "done"
    /\ UNCHANGED <<api_key, llm1, llm2, max_turns, history, current_speaker_idx,
                   turn, full_response, items, calls, setup, sig_at, err_turns>>
    /\ UNCHANGED chunks
    /\ UNCHANGED <<decVars, appVars>>

\* execute() returns to the REPL; history and bindings are dropped
EndSession ==
    /\ pc = "done"
    /\ pc' = "idle"
    /\ llm1' = NoInstance
    /\ llm2' = NoInstance
    /\ setup' = <<NoInstance, NoInstance>>
    /\ max_turns' = 0
    /\ history' = <<>>
    /\ current_speaker_idx' = 0
    /\ turn' = 0
    /\ full_response' = <<>>
    /\ items' = 0
    /\ outcome' = "none"
    /\ calls' = <<>>
    /\ err_turns' = {}
    /\ sig_at' = IF STOP_CONVERSATION_FLAG THEN [turn |-> -1, at |-> "done"] ELSE NoSignal
    /\ UNCHANGED <<STOP_CONVERSATION_FLAG, api_key>>
    /\ chunks' = <<>>
    /\ UNCHANGED <<decVars, appVars>>

Next ==
    \/ Signal
    \/ StartSession
    \/ SeedSession
    \/ ObserveStop
    \/ ReturnInterrupted
    \/ BeginTurn
    \/ StreamOpened
    \/ StreamUnavailable
    \/ StreamChunk
    \/ StreamFlushFails
    \/ StreamItemError
    \/ StreamEnds
    \/ QuerySucceeds
    \/ QueryFails
    \/ QueryPanics
    \/ NextTurn
    \/ FinishMaxTurns
    \/ EndSession

Spec == Init /\ [][Next]_vars

\* ------------------------------------------------------------------- types
TypeOK ==
    /\ STOP_CONVERSATION_FLAG \in BOOLEAN
    /\ pc \in {"idle", "entered", "top", "interrupted", "open", "streaming",
               "fallback", "sleep", "done", "panicked"}
    /\ outcome \in {"none", "MaxTurnsReached", "Cancelled", "Error", "IoError", "Panic"}
    /\ current_speaker_idx \in {0, 1}
    /\ turn \in 0..MaxTurnsBound

\* ====================================================================== claims
StreamCalls == {i \in DOMAIN calls : calls[i].op = "query_stream"}
QueryCalls == {i \in DOMAIN calls : calls[i].op = "query"}

\* turns of this session that ran to the append of their message
CompletedTurns == IF pc = "sleep" THEN turn + 1 ELSE turn

\* the turn during which the flag went up has appended its message
SignalledTurnAppended == Len(history) = sig_at.turn + 3

\* C1 (as claimed): whenever the flag went up while a turn's provider call or
\* chunk stream was in flight and that turn did not fail on its own, the
\* session returns with that turn's message appended and the outcome Cancelled.
C1_AsClaimed ==
    (pc = "done" /\ sig_at.at \in InFlight /\ outcome \notin {"Error", "IoError"})
        => (outcome = "Cancelled" /\ SignalledTurnAppended)

\* C1 (amended): when the flag goes up while turn t is in flight, the flag is
\* not sampled before the turn is over and no provider is invoked for a later
\* turn; once turn t has appended its message the session ends as Cancelled if
\* t + 1 < max_turns and as MaxTurnsReached if t was the last turn; a session
\* that returns without turn t's message has returned an error.
C1_CancellationBoundary ==
    sig_at.at \in InFlight =>
        /\ \A i \in DOMAIN calls : calls[i].turn <= sig_at.turn
        /\ pc \in InFlight => (turn = sig_at.turn /\ outcome = "none")
        /\ pc = "sleep" => (turn = sig_at.turn /\ SignalledTurnAppended)
        /\ pc \in {"top", "interrupted"} =>
              (turn = sig_at.turn + 1 /\ SignalledTurnAppended)
        /\ pc = "interrupted" => turn < max_turns
        /\ pc = "done" =>
              IF SignalledTurnAppended
              THEN outcome = (IF sig_at.turn + 1 < max_turns
                              THEN "Cancelled" ELSE "MaxTurnsReached")
              ELSE Len(history) = sig_at.turn + 2 /\ outcome \in {"Error", "IoError"}

C1_Witness ==
    /\ pc = "done"
    /\ outcome = "Cancelled"
    /\ sig_at.at = "streaming"
    /\ SignalledTurnAppended
    /\ Len(calls) = sig_at.turn + 1

\* C2 (as claimed): once an item of a turn's chunk sequence was an error, the
\* session has ended with the Error outcome and no provider was invoked for a
\* later turn.
C2_AsClaimed ==
    \A t \in err_turns :
        /\ pc = "done"
        /\ outcome = "Error"
        /\ \A i \in DOMAIN calls : calls[i].turn <= t

\* C3 (as claimed): the step in which a turn's chunk sequence delivers an error
\* leaves the transcript unchanged.
C3_AsClaimed ==
    [][(err_turns' \ err_turns # {}) => history' = history]_vars

\* C4: a session that returns with no signal since its start, no provider
\* failure and no output failure has made exactly max_turns turns, appended
\* max_turns agent messages and ended as MaxTurnsReached.
C4_MaxTurnsTermination ==
    ( /\ pc = "done"
      /\ sig_at = NoSignal
      /\ err_turns = {}
      /\ QueryCalls = {}
      /\ outcome # "IoError" )
    => ( /\ outcome = "MaxTurnsReached"
         /\ Len(calls) = max_turns
         /\ Len(history) = 2 + max_turns
         /\ turn = max_turns )

C4_Witness ==
    /\ pc = "done"
    /\ sig_at = NoSignal
    /\ err_turns = {}
    /\ QueryCalls = {}
    /\ outcome = "MaxTurnsReached"
    /\ max_turns = MaxTurnsBound
    /\ Len(history) = 2 + MaxTurnsBound

\* C5: at most max_turns turns are started, and every turn that is started
\* or running has an index in 0 .. max_turns - 1.
C5_TurnBound ==
    /\ Cardinality(StreamCalls) <= max_turns
    /\ \A i \in DOMAIN calls : calls[i].turn >= 0 /\ calls[i].turn < max_turns
    /\ \A i, j \in StreamCalls : calls[i].turn = calls[j].turn => i = j
    /\ pc \in InFlight \cup {"sleep"} => (turn >= 0 /\ turn < max_turns)

C5_Witness ==
    /\ pc = "sleep"
    /\ turn = max_turns - 1
    /\ Cardinality(StreamCalls) = max_turns
    /\ max_turns = MaxTurnsBound

\* C6: the transcript is the system and user seed entries followed by agent
\* entries that alternate LLM_1, LLM_2, ... from LLM_1, one per completed turn.
C6_TurnAlternation ==
    pc \in InTurn \cup {"done", "panicked"} =>
        /\ Len(history) = 2 + CompletedTurns
        /\ history[1].role = "system"
        /\ history[2].role = "user"
        /\ \A i \in 3..Len(history) :
              history[i].role = IF (i - 3) % 2 = 0 THEN "LLM_1" ELSE "LLM_2"

C6_Witness ==
    /\ pc = "done"
    /\ outcome = "MaxTurnsReached"
    /\ Len(history) = 4
    /\ history[3].role = "LLM_1"
    /\ history[4].role = "LLM_2"

\* C7: a set flag seen at the top of a turn leads only to the interrupted
\* return: the flag is cleared, the outcome is Cancelled, and neither the
\* transcript nor the list of provider calls changes from the top of that turn
\* on; a provider is called only from a top at which the flag was clear.
C7_CancelAtTop ==
    [][ /\ (pc = "top" /\ turn < max_turns /\ STOP_CONVERSATION_FLAG)
            => (pc' \in {"top", "interrupted"} /\ history' = history /\ calls' = calls)
        /\ (pc = "top" /\ pc' = "open") => ~STOP_CONVERSATION_FLAG
        /\ (pc = "interrupted" /\ pc' # "interrupted")
            => ( /\ pc' = "done"
                 /\ outcome' = "Cancelled"
                 /\ ~STOP_CONVERSATION_FLAG'
                 /\ history' = history
                 /\ calls' = calls )
        /\ (pc = "interrupted" /\ pc' = "interrupted")
            => (history' = history /\ calls' = calls)
        /\ (pc = "done" /\ pc' = "done")
            => (history' = history /\ calls' = calls /\ outcome' = outcome)
      ]_vars

C7_Witness ==
    /\ pc = "done"
    /\ outcome = "Cancelled"
    /\ ~STOP_CONVERSATION_FLAG
    /\ turn = 1
    /\ Len(calls) = 1
    /\ Len(history) = 3

\* the flag was raised before the loop's first sample and is now clear
StaleSignalCleared ==
    /\ pc = "top"
    /\ turn = 0
    /\ sig_at.at \in {"idle", "done", "entered"}
    /\ ~STOP_CONVERSATION_FLAG

\* C8: entering the loop clears the flag, a first turn whose top finds the flag
\* clear is executed, and the first turn is cancelled only by a signal that
\* arrived after the session's reset.
C8_StaleSignalIgnored ==
    /\ [][ /\ (pc = "entered" /\ pc' = "top") => ~STOP_CONVERSATION_FLAG'
           /\ (StaleSignalCleared /\ pc' # "top") => (pc' = "open" /\ Len(calls') = 1)
         ]_vars
    /\ [](pc = "interrupted" /\ turn = 0 => sig_at = [turn |-> 0, at |-> "top"])

C8_Witness == StaleSignalCleared /\ sig_at.at = "idle"

\* C9 (as claimed): a single-shot query is the fallback of the query_stream
\* call of the same turn, with the same provider, model and prompt, and when
\* it is over either the turn's message is appended or the session has ended
\* with the Error outcome and nothing appended.
C9_AsClaimed ==
    LET n == Len(calls) IN
    (n > 0 /\ calls[n].op = "query") =>
        /\ n >= 2
        /\ calls[n - 1] = [calls[n] EXCEPT !.op = "query_stream"]
        /\ pc # "fallback" =>
              \/ Len(history) = calls[n].turn + 3
              \/ pc = "done" /\ outcome = "Error" /\ Len(history) = calls[n].turn + 2

\* C10 (as claimed): no provider operation called by the orchestrator panics.
C10_AsClaimed == pc # "panicked" /\ outcome # "Panic"

\* ------------------------------------------------------------ claims C21..C26
\* h is a prefix of g
IsPrefix(h, g) == Len(h) <= Len(g) /\ h = SubSeq(g, 1, Len(h))

\* C21: before the first turn the transcript is [system: agent-A's persona,
\* user: the topic], the speaker is agent-A, and the first provider call of a
\* session is made for LLM_1 in turn 0 through agent-A's binding.
C21_SeededTranscript ==
    /\ (pc = "top" /\ turn = 0)
          => /\ Len(history) = 2
             /\ history[1] = [role |-> "system", content |-> setup[1].persona]
             /\ history[2].role = "user"
             /\ history[2].content \in Topics
             /\ current_speaker_idx = 0
    /\ calls # <<>>
          => /\ calls[1].turn = 0
             /\ calls[1].role = "LLM_1"
             /\ calls[1].provider = setup[1].provider
             /\ calls[1].model = setup[1].model

\* the first turn is about to start in a session whose agents have different
\* personas and providers
C21_Witness ==
    /\ pc = "top"
    /\ turn = 0
    /\ Len(history) = 2
    /\ setup[1].persona # setup[2].persona
    /\ setup[1].provider # setup[2].provider

\* C22: the prompt of every provider call of turn n is the rendering of the
\* whole transcript as it stood in turn n (its first n + 2 entries, the message
\* of turn n - 1 included), every entry as role, ": ", content, joined by blank
\* lines: it is that rendering when the step logs the call, and while the
\* session's calls are kept no step changes an entry already in the
\* transcript; and a call is in flight only in the turn in progress, as the
\* newest call of the session.
C22_PromptIsWholeTranscript ==
    /\ []( /\ \A i \in DOMAIN calls : Len(history) >= calls[i].turn + 2
           /\ \A i \in DOMAIN calls :
                 i < Len(calls) => calls[i].turn <= calls[Len(calls)].turn
           /\ pc \in InFlight => (calls # <<>> /\ calls[Len(calls)].turn = turn) )
    /\ [][ \A i \in DOMAIN calls' :
             (i \notin DOMAIN calls \/ calls'[i] # calls[i]) =>
                calls'[i].prompt = PromptText(SubSeq(history', 1, calls'[i].turn + 2)) ]_vars
    /\ [][ calls' # <<>> => IsPrefix(history, history') ]_vars

\* a call was made in turn 1, after the message of turn 0 was appended
C22_Witness ==
    /\ \E i \in DOMAIN calls : calls[i].turn = 1
    /\ Len(history) >= 3
    /\ history[3].content # <<>>

\* the turn that has just appended its message got it from its chunk stream
StreamedTurn ==
    /\ pc = "sleep"
    /\ calls # <<>>
    /\ calls[Len(calls)].op = "query_stream"
    /\ calls[Len(calls)].turn = turn

\* the concatenation of the chunks of the turn
ResponseText == Flatten(chunks)

C24_AppendOnly ==
    /\ [][ pc # "done"
             => /\ IsPrefix(history, history')
                /\ pc \in InTurn => Len(history') <= Len(history) + 1 ]_vars
    /\ [](pc \in InTurn => (turn + 2 <= Len(history) /\ Len(history) <= turn + 3))

\* two turns have appended their messages
C24_Witness == pc = "sleep" /\ turn = 1 /\ Len(history) = 4

\* C25 (as claimed): every turn invokes query_stream once and query at most
\* once, directly after its query_stream; and after a failed turn (one whose
\* stream yielded an error, or whose fallback query failed) no provider
\* operation is invoked for a later turn.
C25_AsClaimed ==
    /\ \A i, j \in StreamCalls : calls[i].turn = calls[j].turn => i = j
    /\ \A i, j \in QueryCalls : calls[i].turn = calls[j].turn => i = j
    /\ \A j \in QueryCalls :
          j > 1 /\ calls[j - 1].op = "query_stream" /\ calls[j - 1].turn = calls[j].turn
    /\ \A t \in err_turns : \A i \in DOMAIN calls : calls[i].turn <= t
    /\ pc = "done" /\ outcome = "Error" => calls[Len(calls)].turn = turn

\* C26: both bindings equal their setup values throughout the session, and
\* every provider call tagged LLM_1 goes to agent-A's provider and model, every
\* call tagged LLM_2 to agent-B's; the tag is LLM_1 in even turns.
C26_BindingsFixed ==
    /\ pc # "idle" => (llm1 = setup[1] /\ llm2 = setup[2])
    /\ \A i \in DOMAIN calls :
          LET b == IF calls[i].role = "LLM_1" THEN setup[1] ELSE setup[2] IN
          /\ calls[i].role = (IF calls[i].turn % 2 = 0 THEN "LLM_1" ELSE "LLM_2")
          /\ calls[i].provider = b.provider
          /\ calls[i].model = b.model

\* agent-B has been called in a session whose agents use different providers
C26_Witness ==
    /\ \E i \in DOMAIN calls : calls[i].role = "LLM_2"
    /\ setup[1].provider # setup[2].provider
    /\ setup[1].model # setup[2].model

\* ======================================================= query_stream decoders
\* A response body is a sequence of bytes, one token per byte, written in a
\* reduced alphabet that keeps what the decoders look at:
\*   "{" text "}"    a JSON object whose text fields hold `text`; the bytes of
\*                   text stand for themselves, "C3" "A9" are the two bytes of
\*                   one two-byte UTF-8 character
\*   "T" / "F"       before "}": the member "done":true / "done":false
\*   "d" ":"         the line prefix "data:"
\*   "[" "D" "]"     the payload "[DONE]"; "[" ... "]" is also the JSON array
\*   "\n" " " ","    themselves; "x" is a byte no JSON value may contain here

MaxFrames == 2          \* a body is put together from at most MaxFrames pieces

TextBytes == {"a", "b", "C3", "A9"}

\* String::from_utf8 succeeds
RECURSIVE ValidUtf8(_)
ValidUtf8(bs) ==
    IF bs = <<>> THEN TRUE
    ELSE IF Head(bs) = "C3"
         THEN Len(bs) >= 2 /\ bs[2] = "A9" /\ ValidUtf8(Tail(Tail(bs)))
    ELSE IF Head(bs) = "A9" THEN FALSE
    ELSE ValidUtf8(Tail(bs))

\* items of a chunk sequence: Ok(text) and Err(e)
OkItem(t) == [ok |-> TRUE, text |-> t, err |-> "none"]
ErrItem(e) == [ok |-> FALSE, text |-> <<>>, err |-> e]

\* Option<String>
SomeText(t) == [some |-> TRUE, text |-> t]
NoText == [some |-> FALSE, text |-> <<>>]

\* FilterMap as it would be if every item of the unfold reached the caller
FilterMap_PassesAll(yielded, res) == Append(yielded, res)

\* the filter_map after groq's and gemini's unfold: Ok("") is dropped
FilterMap(yielded, res) ==
    IF res.ok /\ res.text = <<>> THEN yielded ELSE Append(yielded, res)

\* sequences of at most n elements of S
SeqsUpTo(S, n) == UNION {[1..k -> S] : k \in 0..n}

\* ---------------------------------------------------------------- byte source
\* what response.bytes_stream().next() can return: a non-empty run of the
\* bytes still to come, a transport error (after which the body is over), or
\* the end of the body; a body that has ended stays ended
SourceNext ==
    IF eof THEN {[kind |-> "end", bytes |-> <<>>]}
    ELSE {[kind |-> "bytes", bytes |-> SubSeq(rest, 1, k)] : k \in 1..Len(rest)}
         \cup (IF faulted THEN {} ELSE {[kind |-> "error", bytes |-> <<>>]})
         \cup (IF rest = <<>> THEN {[kind |-> "end", bytes |-> <<>>]} ELSE {})

RestAfter(r) ==
    IF r.kind = "bytes" THEN SubSeq(rest, Len(r.bytes) + 1, Len(rest)) ELSE <<>>

\* ---------------------------------------------------------------- ollama
\* serde_json::from_str::<OllamaResponseChunk>: `response` optional, `done`
\* required, whitespace allowed around the one value
ParseOllamaChunk(s) ==
    LET t == Trim(s) IN
    IF Len(t) < 2 \/ t[1] # "{" \/ t[Len(t)] # "}"
    THEN [ok |-> FALSE, text |-> <<>>, done |-> FALSE]
    ELSE LET inner == SubSeq(t, 2, Len(t) - 1) IN
         IF inner = <<>> \/ inner[Len(inner)] \notin {"T", "F"}
         THEN [ok |-> FALSE, text |-> <<>>, done |-> FALSE]
         ELSE LET text == SubSeq(inner, 1, Len(inner) - 1) IN
              IF \A i \in 1..Len(text) : text[i] \in TextBytes
              THEN [ok |-> TRUE, text |-> text, done |-> inner[Len(inner)] = "T"]
              ELSE [ok |-> FALSE, text |-> <<>>, done |-> FALSE]

\* the closure mapped over the byte stream, for one item of it
OllamaMap(r) ==
    IF r.kind = "error" THEN ErrItem("Request")
    ELSE IF ~ValidUtf8(r.bytes) THEN ErrItem("Json")
    ELSE IF ~ParseOllamaChunk(r.bytes).ok THEN ErrItem("Json")
    ELSE OkItem(ParseOllamaChunk(r.bytes).text)

\* the object a read decodes to has done = true
OllamaDone(r) ==
    /\ r.kind = "bytes"
    /\ ValidUtf8(r.bytes)
    /\ ParseOllamaChunk(r.bytes).ok
    /\ ParseOllamaChunk(r.bytes).done

\* a read that is exactly one newline-terminated line
OneLine(bs) ==
    /\ bs # <<>>
    /\ bs[Len(bs)] = "\n"
    /\ \A i \in 1..(Len(bs) - 1) : bs[i] # "\n"

\* one item of the byte stream goes through the map
OllamaItem ==
    /\ dkind = "ollama"
    /\ dpc = "poll"
    /\ \E r \in SourceNext :
          /\ r.kind # "end"
          /\ out' = Append(out, OllamaMap(r))
          /\ rest' = RestAfter(r)
          /\ faulted' = (faulted \/ r.kind = "error")
          /\ aligned' = (aligned /\ r.kind = "bytes" /\ OneLine(r.bytes))
          /\ done_at' = IF done_at = 0 /\ OllamaDone(r) THEN Len(out) + 1 ELSE done_at
          /\ bytewise' = (bytewise /\ Len(r.bytes) = 1)
    /\ UNCHANGED <<dkind, frames, buffer, dpc, eof>>
    /\ UNCHANGED <<replVars, appVars>>

\* the byte stream ends, and the mapped stream with it
OllamaEnds ==
    /\ dkind = "ollama"
    /\ dpc = "poll"
    /\ [kind |-> "end", bytes |-> <<>>] \in SourceNext
    /\ dpc' = "ended"
    /\ eof' = TRUE
    /\ UNCHANGED <<dkind, frames, rest, faulted, buffer, out, aligned, done_at,
                   bytewise>>
    /\ UNCHANGED <<replVars, appVars>>

\* ---------------------------------------------------------------- groq (SSE)
\* buffer.find("\n\n"): position of the first blank-line delimiter, 0 if none
FindDelimiter(b) ==
    LET at == {i \in 1..(Len(b) - 1) : b[i] = "\n" /\ b[i + 1] = "\n"}
    IN IF at = {} THEN 0 ELSE CHOOSE i \in at : \A j \in at : i <= j

\* str::lines
RECURSIVE Lines(_, _)
Lines(s, cur) ==
    IF s = <<>> THEN (IF cur = <<>> THEN <<>> ELSE <<cur>>)
    ELSE IF Head(s) = "\n" THEN <<cur>> \o Lines(Tail(s), <<>>)
    ELSE Lines(Tail(s), Append(cur, Head(s)))

SSE_DONE == <<"[", "D", "]">>
SSE_DATA == <<"d", ":">>

\* serde_json::from_str::<ChatCompletionChunk>: the delta contents of the
\* choices, concatenated
ParseChatCompletionChunk(data) ==
    IF /\ Len(data) >= 2
       /\ data[1] = "{"
       /\ data[Len(data)] = "}"
       /\ \A i \in 2..(Len(data) - 1) : data[i] \in TextBytes
    THEN [ok |-> TRUE, text |-> SubSeq(data, 2, Len(data) - 1)]
    ELSE [ok |-> FALSE, text |-> <<>>]

\* SseLines as it would be if a data line that fails to parse were skipped and
\* the content of the other lines kept
RECURSIVE SseLines_SkipsBadLine(_, _)
SseLines_SkipsBadLine(lines, content_acc) ==
    IF lines = <<>>
    THEN (IF content_acc = <<>> THEN NoText ELSE SomeText(content_acc))
    ELSE LET line == Head(lines) IN
         IF Len(line) >= 2 /\ SubSeq(line, 1, 2) = SSE_DATA
         THEN LET data == Trim(SubSeq(line, 3, Len(line))) IN
              IF data = SSE_DONE THEN NoText
              ELSE IF data = <<>> THEN SseLines_SkipsBadLine(Tail(lines), content_acc)
              ELSE IF ParseChatCompletionChunk(data).ok
                   THEN SseLines_SkipsBadLine(Tail(lines),
                            content_acc \o ParseChatCompletionChunk(data).text)
                   ELSE SseLines_SkipsBadLine(Tail(lines), content_acc)
         ELSE SseLines_SkipsBadLine(Tail(lines), content_acc)

\* the for loop of process_sse_message over the lines of one block
RECURSIVE SseLines(_, _)
SseLines(lines, content_acc) ==
    IF lines = <<>>
    THEN (IF content_acc = <<>> THEN NoText ELSE SomeText(content_acc))
    ELSE LET line == Head(lines) IN
         IF Len(line) >= 2 /\ SubSeq(line, 1, 2) = SSE_DATA
         THEN LET data == Trim(SubSeq(line, 3, Len(line))) IN
              IF data = SSE_DONE THEN NoText
              ELSE IF data = <<>> THEN SseLines(Tail(lines), content_acc)
              ELSE IF ParseChatCompletionChunk(data).ok
                   THEN SseLines(Tail(lines),
                                 content_acc \o ParseChatCompletionChunk(data).text)
                   ELSE NoText
         ELSE SseLines(Tail(lines), content_acc)

process_sse_message(message_block) == SseLines(Lines(message_block, <<>>), <<>>)

\* the payloads of the data lines of a block, trimmed
DataLines(message_block) ==
    LET ls == SelectSeq(Lines(message_block, <<>>),
                        LAMBDA l : Len(l) >= 2 /\ SubSeq(l, 1, 2) = SSE_DATA)
    IN [i \in 1..Len(ls) |-> Trim(SubSeq(ls[i], 3, Len(ls[i])))]

\* the block is given up at a [DONE] payload (line 321)
DoneBlock(message_block) ==
    LET ds == DataLines(message_block) IN
    \E i \in 1..Len(ds) :
        /\ ds[i] = SSE_DONE
        /\ \A j \in 1..(i - 1) : ds[j] = <<>> \/ ParseChatCompletionChunk(ds[j]).ok

\* the block is given up at a payload that fails to parse (line 338)
BadBlock(message_block) ==
    LET ds == DataLines(message_block) IN
    \E i \in 1..Len(ds) :
        /\ ds[i] \notin {SSE_DONE, <<>>}
        /\ ~ParseChatCompletionChunk(ds[i]).ok
        /\ \A j \in 1..(i - 1) :
              ds[j] # SSE_DONE /\ (ds[j] = <<>> \/ ParseChatCompletionChunk(ds[j]).ok)

\* the block the next drain takes out of the buffer
NextBlock(b) == SubSeq(b, 1, FindDelimiter(b) + 1)

\* GroqDrainStep as it would be if the [DONE] event ended the sequence
GroqDrainStep_DoneEnds(b) ==
    LET end_idx == FindDelimiter(b)
        message == SubSeq(b, 1, end_idx + 1)
        content == process_sse_message(message)
    IN [buffer |-> SubSeq(b, end_idx + 2, Len(b)),
        yield |-> content.some,
        item |-> OkItem(content.text),
        ended |-> DoneBlock(message)]

\* GroqDrainStep as it would be if a payload that fails to parse were an
\* error item
GroqDrainStep_ParseErrorYields(b) ==
    LET end_idx == FindDelimiter(b)
        message == SubSeq(b, 1, end_idx + 1)
        content == process_sse_message(message)
    IN [buffer |-> SubSeq(b, end_idx + 2, Len(b)),
        yield |-> content.some \/ BadBlock(message),
        item |-> IF BadBlock(message) THEN ErrItem("Json") ELSE OkItem(content.text),
        ended |-> FALSE]

\* lines 250-258: a delimiter is in the buffer; the block up to and including
\* it is drained and processed
GroqDrainStep(b) ==
    LET end_idx == FindDelimiter(b)
        message == SubSeq(b, 1, end_idx + 1)
        content == process_sse_message(message)
    IN [buffer |-> SubSeq(b, end_idx + 2, Len(b)),
        yield |-> content.some,
        item |-> OkItem(content.text),
        ended |-> FALSE]

\* GroqReadStep as it would be if the leftover buffer were dropped at the end
\* of the byte source
GroqReadStep_DropsLeftover(b, r) ==
    CASE r.kind = "bytes" ->
            IF ValidUtf8(r.bytes)
            THEN [buffer |-> b \o r.bytes, yield |-> FALSE,
                  item |-> OkItem(<<>>), ended |-> FALSE]
            ELSE [buffer |-> b, yield |-> TRUE,
                  item |-> ErrItem("Provider"), ended |-> FALSE]
      [] r.kind = "error" ->
            [buffer |-> b, yield |-> TRUE, item |-> ErrItem("Request"), ended |-> FALSE]
      [] r.kind = "end" ->
            [buffer |-> b, yield |-> FALSE, item |-> OkItem(<<>>), ended |-> TRUE]

\* lines 261-296: no delimiter in the buffer; one item is taken from the source
GroqReadStep(b, r) ==
    CASE r.kind = "bytes" ->
            IF ValidUtf8(r.bytes)
            THEN [buffer |-> b \o r.bytes, yield |-> FALSE,
                  item |-> OkItem(<<>>), ended |-> FALSE]
            ELSE [buffer |-> b, yield |-> TRUE,
                  item |-> ErrItem("Provider"), ended |-> FALSE]
      [] r.kind = "error" ->
            [buffer |-> b, yield |-> TRUE, item |-> ErrItem("Request"), ended |-> FALSE]
      [] r.kind = "end" ->
            IF b # <<>> /\ process_sse_message(b).some
            THEN [buffer |-> <<>>, yield |-> TRUE,
                  item |-> OkItem(process_sse_message(b).text), ended |-> FALSE]
            ELSE [buffer |-> b, yield |-> FALSE, item |-> OkItem(<<>>), ended |-> TRUE]

\* one iteration of the unfold loop that finds a delimiter
GroqDrain ==
    /\ dkind = "groq"
    /\ dpc = "poll"
    /\ FindDelimiter(buffer) # 0
    /\ LET st == GroqDrainStep(buffer) IN
          /\ buffer' = st.buffer
          /\ out' = IF st.yield THEN FilterMap(out, st.item) ELSE out
          /\ dpc' = IF st.ended THEN "ended" ELSE "poll"
    /\ done_at' = IF done_at = 0 /\ DoneBlock(NextBlock(buffer))
                   THEN Len(out) + 1 ELSE done_at
    /\ UNCHANGED <<dkind, frames, rest, faulted, aligned, bytewise, eof>>
    /\ UNCHANGED <<replVars, appVars>>

\* one iteration of the unfold loop that awaits the byte stream
GroqRead ==
    /\ dkind = "groq"
    /\ dpc = "poll"
    /\ FindDelimiter(buffer) = 0
    /\ \E r \in SourceNext :
          LET st == GroqReadStep(buffer, r) IN
          /\ buffer' = st.buffer
          /\ out' = IF st.yield THEN FilterMap(out, st.item) ELSE out
          /\ dpc' = IF st.ended THEN "ended" ELSE "poll"
          /\ rest' = RestAfter(r)
          /\ faulted' = (faulted \/ r.kind = "error")
          /\ bytewise' = (bytewise /\ (r.kind = "end" \/ Len(r.bytes) = 1))
          /\ eof' = (eof \/ r.kind = "end")
    /\ UNCHANGED <<dkind, frames, aligned, done_at>>
    /\ UNCHANGED <<replVars, appVars>>

\* ---------------------------------------------------------------- gemini
\* StreamDeserializer::<_, Vec<GeminiStreamChunk>>::next() on the buffer:
\*   "ok"     one whole array was read: `consumed` bytes (byte_offset), `text`
\*            the part texts of its elements, concatenated
\*   "eof"    the bytes are a proper prefix of a value (Error::is_eof)
\*   "syntax" any other error
\*   "none"   nothing but whitespace is left
\* st: "start" before "[", "open" after "[", "elem" inside an element,
\*     "next" after an element, "more" after ","
RECURSIVE ScanArray(_, _, _, _, _)
ScanArray(b, i, st, text, cur) ==
    LET Fail == [kind |-> "syntax", consumed |-> 0, text |-> <<>>]
        Done == [kind |-> "ok", consumed |-> i, text |-> text]
        c == b[i]
    IN
    IF i > Len(b)
    THEN [kind |-> IF st = "start" THEN "none" ELSE "eof",
          consumed |-> 0, text |-> <<>>]
    ELSE CASE st = "start" ->
                 IF IsWhitespace(c) THEN ScanArray(b, i + 1, "start", text, cur)
                 ELSE IF c = "[" THEN ScanArray(b, i + 1, "open", text, cur)
                 ELSE Fail
           [] st = "open" ->
                 IF IsWhitespace(c) THEN ScanArray(b, i + 1, "open", text, cur)
                 ELSE IF c = "{" THEN ScanArray(b, i + 1, "elem", text, <<>>)
                 ELSE IF c = "]" THEN Done
                 ELSE Fail
           [] st = "elem" ->
                 IF c \in TextBytes THEN ScanArray(b, i + 1, "elem", text, Append(cur, c))
                 ELSE IF c = "}" /\ ValidUtf8(cur)
                      THEN ScanArray(b, i + 1, "next", text \o cur, <<>>)
                 ELSE Fail
           [] st = "next" ->
                 IF IsWhitespace(c) THEN ScanArray(b, i + 1, "next", text, cur)
                 ELSE IF c = "," THEN ScanArray(b, i + 1, "more", text, cur)
                 ELSE IF c = "]" THEN Done
                 ELSE Fail
           [] st = "more" ->
                 IF IsWhitespace(c) THEN ScanArray(b, i + 1, "more", text, cur)
                 ELSE IF c = "{" THEN ScanArray(b, i + 1, "elem", text, <<>>)
                 ELSE Fail

StreamDeserializerNext(b) == ScanArray(b, 1, "start", <<>>, <<>>)

\* GeminiParseStep as it would be if running out of bytes were an error like
\* any other
GeminiParseStep_EofIsError(b) ==
    LET d == StreamDeserializerNext(b) IN
    CASE d.kind = "ok" ->
            [buffer |-> SubSeq(b, d.consumed + 1, Len(b)),
             yield |-> d.text # <<>>, item |-> OkItem(d.text), dpc |-> "poll"]
      [] d.kind \in {"eof", "syntax"} ->
            [buffer |-> <<>>, yield |-> TRUE, item |-> ErrItem("Json"), dpc |-> "poll"]
      [] d.kind = "none" ->
            [buffer |-> <<>>, yield |-> FALSE, item |-> OkItem(<<>>), dpc |-> "read"]

\* GeminiParseStep as it would be if a value without text were an error
GeminiParseStep_EmptyIsError(b) ==
    LET d == StreamDeserializerNext(b) IN
    CASE d.kind = "ok" ->
            [buffer |-> SubSeq(b, d.consumed + 1, Len(b)),
             yield |-> TRUE,
             item |-> IF d.text = <<>> THEN ErrItem("Json") ELSE OkItem(d.text),
             dpc |-> "poll"]
      [] d.kind = "eof" ->
            [buffer |-> b, yield |-> FALSE, item |-> OkItem(<<>>), dpc |-> "read"]
      [] d.kind = "syntax" ->
            [buffer |-> <<>>, yield |-> TRUE, item |-> ErrItem("Json"), dpc |-> "poll"]
      [] d.kind = "none" ->
            [buffer |-> <<>>, yield |-> FALSE, item |-> OkItem(<<>>), dpc |-> "read"]

\* GeminiParseStep as it would be without the buffer.split_to(consumed) of
\* line 204
GeminiParseStep_NoSplit(b) ==
    LET d == StreamDeserializerNext(b) IN
    CASE d.kind = "ok" ->
            [buffer |-> b,
             yield |-> d.text # <<>>, item |-> OkItem(d.text), dpc |-> "poll"]
      [] d.kind = "eof" ->
            [buffer |-> b, yield |-> FALSE, item |-> OkItem(<<>>), dpc |-> "read"]
      [] d.kind = "syntax" ->
            [buffer |-> <<>>, yield |-> TRUE, item |-> ErrItem("Json"), dpc |-> "poll"]
      [] d.kind = "none" ->
            [buffer |-> <<>>, yield |-> FALSE, item |-> OkItem(<<>>), dpc |-> "read"]

\* lines 180-213: one iteration of the inner loop
GeminiParseStep(b) ==
    LET d == StreamDeserializerNext(b) IN
    CASE d.kind = "ok" ->
            [buffer |-> SubSeq(b, d.consumed + 1, Len(b)),
             yield |-> d.text # <<>>, item |-> OkItem(d.text), dpc |-> "poll"]
      [] d.kind = "eof" ->
            [buffer |-> b, yield |-> FALSE, item |-> OkItem(<<>>), dpc |-> "read"]
      [] d.kind = "syntax" ->
            [buffer |-> <<>>, yield |-> TRUE, item |-> ErrItem("Json"), dpc |-> "poll"]
      [] d.kind = "none" ->
            [buffer |-> <<>>, yield |-> FALSE, item |-> OkItem(<<>>), dpc |-> "read"]

\* GeminiReadStep as it would be if bytes left over at the end of the source
\* were reported as an error
GeminiReadStep_TruncationIsError(b, r) ==
    CASE r.kind = "bytes" ->
            [buffer |-> b \o r.bytes, yield |-> TRUE, item |-> OkItem(<<>>),
             dpc |-> "poll"]
      [] r.kind = "error" ->
            [buffer |-> b, yield |-> TRUE, item |-> ErrItem("Request"), dpc |-> "poll"]
      [] r.kind = "end" ->
            [buffer |-> b, yield |-> b # <<>>, item |-> ErrItem("Json"),
             dpc |-> "ended"]

\* GeminiReadStep as it would be if a read were put in front of the buffer
GeminiReadStep_Prepends(b, r) ==
    CASE r.kind = "bytes" ->
            [buffer |-> r.bytes \o b, yield |-> TRUE, item |-> OkItem(<<>>),
             dpc |-> "poll"]
      [] r.kind = "error" ->
            [buffer |-> b, yield |-> TRUE, item |-> ErrItem("Request"), dpc |-> "poll"]
      [] r.kind = "end" ->
            [buffer |-> b, yield |-> FALSE, item |-> OkItem(<<>>), dpc |-> "ended"]

\* lines 215-219: after the inner loop, one item is taken from the source
GeminiReadStep(b, r) ==
    CASE r.kind = "bytes" ->
            [buffer |-> b \o r.bytes, yield |-> TRUE, item |-> OkItem(<<>>),
             dpc |-> "poll"]
      [] r.kind = "error" ->
            [buffer |-> b, yield |-> TRUE, item |-> ErrItem("Request"), dpc |-> "poll"]
      [] r.kind = "end" ->
            [buffer |-> b, yield |-> FALSE, item |-> OkItem(<<>>), dpc |-> "ended"]

GeminiParse ==
    /\ dkind = "gemini"
    /\ dpc = "poll"
    /\ LET st == GeminiParseStep(buffer) IN
          /\ buffer' = st.buffer
          /\ out' = IF st.yield THEN FilterMap(out, st.item) ELSE out
          /\ dpc' = st.dpc
    /\ UNCHANGED <<dkind, frames, rest, faulted, aligned, done_at, bytewise, eof>>
    /\ UNCHANGED <<replVars, appVars>>

GeminiRead ==
    /\ dkind = "gemini"
    /\ dpc = "read"
    /\ \E r \in SourceNext :
          LET st == GeminiReadStep(buffer, r) IN
          /\ buffer' = st.buffer
          /\ out' = IF st.yield THEN FilterMap(out, st.item) ELSE out
          /\ dpc' = st.dpc
          /\ rest' = RestAfter(r)
          /\ faulted' = (faulted \/ r.kind = "error")
          /\ bytewise' = (bytewise /\ (r.kind = "end" \/ Len(r.bytes) = 1))
          /\ eof' = (eof \/ r.kind = "end")
    /\ UNCHANGED <<dkind, frames, aligned, done_at>>
    /\ UNCHANGED <<replVars, appVars>>

\* ---------------------------------------------------------------- bodies
\* pieces a body of each provider is put together from
OllamaWellFormed ==
    { <<"{", "a", "F", "}", "\n">>,             \* {"response":"a","done":false}
      <<"{", "b", "T", "}", "\n">>,             \* {"response":"b","done":true}
      <<"{", "T", "}", "\n">>,                  \* {"response":"","done":true}
      <<"{", "C3", "A9", "F", "}", "\n">> }     \* a two-byte character

OllamaFrames ==
    OllamaWellFormed \cup
    { <<"{", "a", "}", "\n">> }                 \* {"response":"a"}: no done member

GroqWellFormed ==
    { <<"d", ":", "{", "a", "}", "\n", "\n">>,          \* a content event
      <<"d", ":", " ", "{", "b", "}", "\n", "\n">>,     \* "data: " with the space
      <<"d", ":", "{", "C3", "A9", "}", "\n", "\n">>,   \* a two-byte character
      <<"d", ":", "{", "}", "\n", "\n">>,               \* no delta content
      <<"d", ":", "[", "D", "]", "\n", "\n">>,          \* data: [DONE]
      <<"d", ":", "{", "a", "}", "\n",
        "d", ":", "{", "b", "}", "\n", "\n">> }         \* two data lines

\* an event whose second data line fails to parse after a valid first one
GroqPartlyValid ==
    <<"d", ":", "{", "a", "}", "\n", "d", ":", "{", "b", "\n", "\n">>

GroqFrames ==
    GroqWellFormed \cup
    { <<"d", ":", "{", "a", "\n", "\n">>,               \* a JSON syntax error
      GroqPartlyValid,
      <<"d", ":", "{", "b", "}">> }                     \* no delimiter after it

GeminiWellFormed ==
    { <<"[", "{", "a", "}", "]">>,
      <<"[", "{", "a", "}", ",", "\n", "{", "b", "}", "]", "\n">>,
      <<"[", "{", "C3", "A9", "}", "]">>,
      <<"[", "{", "}", "]">>,                           \* no candidate text
      <<"[", "{", "}", ",", "{", "a", "}", "]">> }      \* text in the second element only

GeminiFrames ==
    GeminiWellFormed \cup
    { <<"[", "x", "]">>,                                \* a JSON syntax error
      <<"[", "{", "b", "}">> }                          \* the array never closes

FramesOf(p) ==
    CASE p = "ollama" -> OllamaFrames
      [] p = "groq"   -> GroqFrames
      [] p = "gemini" -> GeminiFrames

Payload == Flatten(frames)

\* every piece of the body is a complete, valid frame of its provider
WellFormed ==
    \A i \in 1..Len(frames) :
        frames[i] \in (CASE dkind = "ollama" -> OllamaWellFormed
                         [] dkind = "groq"   -> GroqWellFormed
                         [] dkind = "gemini" -> GeminiWellFormed)

\* One query_stream chunk sequence of one provider over one response body,
\* in a REPL that is otherwise idle.
DecInit ==
    /\ ReplInit
    /\ AppNew
    /\ dkind \in Providers
    /\ frames \in SeqsUpTo(FramesOf(dkind), MaxFrames)
    /\ rest = Flatten(frames)
    /\ faulted = FALSE
    /\ buffer = <<>>
    /\ dpc = "poll"
    /\ out = <<>>
    /\ aligned = TRUE
    /\ done_at = 0
    /\ bytewise = TRUE
    /\ eof = FALSE

DecNext ==
    \/ OllamaItem
    \/ OllamaEnds
    \/ GroqDrain
    \/ GroqRead
    \/ GeminiParse
    \/ GeminiRead

DecoderSpec == DecInit /\ [][DecNext]_vars

DecTypeOK ==
    /\ dkind \in Providers
    /\ dpc \in {"poll", "read", "ended"}
    /\ faulted \in BOOLEAN
    /\ \A i \in 1..Len(out) : out[i].ok \in BOOLEAN
    /\ Len(buffer) <= Len(Payload)

\* ------------------------------------------------------ whole-sequence runs
\* The items a chunk sequence yields when the byte source delivers exactly
\* `reads` and then ends: the same closures, run from the first poll to the end.
EndOfBody == [kind |-> "end", bytes |-> <<>>]
Read(bs) == [kind |-> "bytes", bytes |-> bs]

RECURSIVE OllamaRun(_)
OllamaRun(reads) ==
    IF reads = <<>> THEN <<>> ELSE <<OllamaMap(Head(reads))>> \o OllamaRun(Tail(reads))

RECURSIVE GroqRun(_, _, _)
GroqRun(b, reads, yielded) ==
    IF FindDelimiter(b) # 0
    THEN LET st == GroqDrainStep(b)
             y == IF st.yield THEN FilterMap(yielded, st.item) ELSE yielded
         IN IF st.ended THEN y ELSE GroqRun(st.buffer, reads, y)
    ELSE LET st == GroqReadStep(b, IF reads = <<>> THEN EndOfBody ELSE Head(reads))
             y == IF st.yield THEN FilterMap(yielded, st.item) ELSE yielded
         IN IF st.ended THEN y
            ELSE GroqRun(st.buffer, IF reads = <<>> THEN <<>> ELSE Tail(reads), y)

RECURSIVE GeminiRun(_, _, _, _)
GeminiRun(at, b, reads, yielded) ==
    IF at = "poll"
    THEN LET st == GeminiParseStep(b)
         IN GeminiRun(st.dpc, st.buffer, reads,
                      IF st.yield THEN FilterMap(yielded, st.item) ELSE yielded)
    ELSE LET st == GeminiReadStep(b, IF reads = <<>> THEN EndOfBody ELSE Head(reads))
             y == IF st.yield THEN FilterMap(yielded, st.item) ELSE yielded
         IN IF st.dpc = "ended" THEN y
            ELSE GeminiRun(st.dpc, st.buffer,
                           IF reads = <<>> THEN <<>> ELSE Tail(reads), y)

\* the body in a single read (nothing to read when the body is empty)
SingleRead == IF Payload = <<>> THEN <<>> ELSE <<Read(Payload)>>

\* the body one frame per read
FramePerRead == [i \in 1..Len(frames) |-> Read(frames[i])]

\* the texts of the Ok items, concatenated
RECURSIVE ConcatOk(_)
ConcatOk(yielded) ==
    IF yielded = <<>> THEN <<>>
    ELSE (IF Head(yielded).ok THEN Head(yielded).text ELSE <<>>) \o ConcatOk(Tail(yielded))

NoErrorItem == \A i \in 1..Len(out) : out[i].ok

\* ================================================================ claims C11..
\* C11 (as claimed): SSE decoder: for every well-formed multi-event body and
\* every way of splitting its bytes into reads, no error item is yielded and
\* the concatenation of the yielded chunks is that of the single-read decoding.
C11_AsClaimed ==
    (dkind = "groq" /\ WellFormed /\ ~faulted)
        => /\ NoErrorItem
           /\ dpc = "ended"
                 => ConcatOk(out) = ConcatOk(GroqRun(<<>>, SingleRead, <<>>))

\* values the array decoder accepts, without the whitespace after them
GeminiValues == {TrimEnd(f) : f \in GeminiWellFormed}

\* b is a non-empty proper prefix of a valid value
ProperPrefixOfValue(b) ==
    /\ b # <<>>
    /\ \E v \in GeminiValues : Len(b) < Len(v) /\ b = SubSeq(v, 1, Len(b))

\* C12: array decoder: for every well-formed body and every segmentation of it
\* into reads no error item is yielded and, at the end, the concatenation of
\* the yielded chunks is that of the single-read decoding; and an iteration
\* that finds only a proper prefix of a value in the buffer yields nothing,
\* keeps the buffer and goes on to await the byte source.
C12_SegmentationInvariance ==
    /\ []( (dkind = "gemini" /\ WellFormed /\ ~faulted)
             => /\ NoErrorItem
                /\ dpc = "ended"
                      => ConcatOk(out)
                           = ConcatOk(GeminiRun("poll", <<>>, SingleRead, <<>>)) )
    /\ [][ (dkind = "gemini" /\ dpc = "poll" /\ ProperPrefixOfValue(buffer))
             => (out' = out /\ buffer' = buffer /\ dpc' = "read") ]_vars

\* a two-array body read one byte at a time to its end, after the decoder has
\* waited on a proper prefix; both arrays' chunks were yielded
C12_Witness ==
    /\ dkind = "gemini"
    /\ WellFormed
    /\ ~faulted
    /\ Len(frames) = 2
    /\ bytewise
    /\ dpc = "ended"
    /\ Len(out) = 2

\* C13 (as claimed): newline-JSON decoder: whatever the read boundaries, the
\* items yielded for a well-formed body are exactly those yielded when every
\* read carries one complete line, none of them an error.
C13_AsClaimed ==
    (dkind = "ollama" /\ WellFormed /\ ~faulted /\ dpc = "ended")
        => /\ out = OllamaRun(FramePerRead)
           /\ NoErrorItem

\* C14 (as claimed): for all three providers and every body, every Ok item the
\* chunk sequence delivers carries a non-empty text.
C14_AsClaimed == \A i \in 1..Len(out) : out[i].ok => out[i].text # <<>>

\* C15 (as claimed): newline-JSON decoder, one complete line per read: once
\* the chunk of an object with done = true has been yielded no further item is
\* yielded, whatever the byte source still delivers; without such an object
\* the sequence ends only when the byte source has ended.
C15_AsClaimed ==
    (dkind = "ollama" /\ aligned)
        => /\ done_at > 0 => Len(out) = done_at
           /\ (done_at = 0 /\ dpc = "ended") => rest = <<>>

\* the response text the object of a line carries
ResponseOf(line) == SelectSeq(line, LAMBDA c : c \in TextBytes)

\* C16 (as claimed): newline-JSON decoder fed one complete newline-terminated
\* object per read: the i-th item is the Ok chunk with the response text of the
\* i-th object, also for an object that has a response but no done member.
C16_AsClaimed ==
    (dkind = "ollama" /\ aligned /\ ~faulted)
        => /\ Len(out) <= Len(frames)
           /\ \A i \in 1..Len(out) : out[i] = OkItem(ResponseOf(frames[i]))

\* the chunk a complete event is to give: its delta content, nothing for the
\* sentinel and for a payload that fails to parse
EventContent(f) == IF f \in GroqWellFormed THEN ResponseOf(f) ELSE <<>>

\* the chunks of a sequence of events, the empty ones suppressed
RECURSIVE ExpectedChunks(_)
ExpectedChunks(fs) ==
    IF fs = <<>> THEN <<>>
    ELSE (IF EventContent(Head(fs)) = <<>> THEN <<>>
          ELSE <<OkItem(EventContent(Head(fs)))>>) \o ExpectedChunks(Tail(fs))

\* every piece of the body is an event closed by its blank line
Delimited ==
    \A i \in 1..Len(frames) :
        FindDelimiter(frames[i]) # 0 /\ FindDelimiter(frames[i]) = Len(frames[i]) - 1

C18_ParseFailureSkipped ==
    /\ [][ (dkind = "groq" /\ dpc = "poll" /\ FindDelimiter(buffer) # 0
              /\ BadBlock(NextBlock(buffer)))
             => /\ out' = out
                /\ dpc' = "poll"
                /\ buffer' = SubSeq(buffer, Len(NextBlock(buffer)) + 1, Len(buffer)) ]_vars
    /\ []( (dkind = "groq" /\ Delimited /\ ~faulted /\ NoErrorItem /\ dpc = "ended")
             => out = ExpectedChunks(frames) )

\* a body of an event that fails to parse followed by a content event, decoded
\* to its end: the later event's chunk is the only item
C18_Witness ==
    /\ dkind = "groq"
    /\ Len(frames) = 2
    /\ Delimited
    /\ BadBlock(frames[1])
    /\ frames[2] \in GroqWellFormed
    /\ dpc = "ended"
    /\ out = <<OkItem(EventContent(frames[2]))>>
    /\ out # <<>>

\* C19 (as claimed): for every provider, an error item is the last item of
\* the chunk sequence: nothing is yielded after it.
C19_AsClaimed == \A i \in 1..(Len(out) - 1) : out[i].ok

\* what is left of the byte source: its bytes, and the one transport error it
\* may still deliver
SourceLeft == Len(rest) + (IF faulted \/ eof THEN 0 ELSE 1)

PhaseRank == CASE dpc = "poll" -> 2 [] dpc = "read" -> 1 [] OTHER -> 0

\* decreases with every step of a decoder: first what is left of the byte
\* source, then the buffered bytes, then the position in the closure
DecoderVariant ==
    SourceLeft * (3 * Len(Payload) + 4) + 3 * Len(buffer) + PhaseRank

\* the guards of the decoder steps: some step can be taken
StepEnabled ==
    CASE dkind = "ollama" -> dpc = "poll" /\ SourceNext # {}
      [] dkind = "groq"   -> dpc = "poll" /\ (FindDelimiter(buffer) # 0 \/ SourceNext # {})
      [] dkind = "gemini" -> dpc = "poll" \/ (dpc = "read" /\ SourceNext # {})
      [] OTHER -> FALSE

\* C20: every step of a decoder consumes at least one buffered byte, takes an
\* item from the byte source, leaves the inner loop for the read that follows
\* it, or ends the sequence, and with it a measure of the work left strictly
\* decreases; a decoder that has not ended can always take a step; and the
\* items yielded never outnumber the bytes of the body plus the one transport
\* error.
C20_DecoderTerminates ==
    /\ [][ /\ DecoderVariant' < DecoderVariant
           /\ \/ Len(buffer') < Len(buffer)
              \/ SourceLeft' < SourceLeft
              \/ (dpc = "poll" /\ dpc' = "read")
              \/ dpc' = "ended" ]_vars
    /\ [](dpc = "ended" \/ StepEnabled)
    /\ [](DecoderVariant >= 0 /\ Len(out) <= Len(Payload) + 1)

\* a two-piece body decoded to the end of the sequence, with an error item and
\* another item on the way
C20_Witness ==
    /\ dkind \in {"groq", "gemini"}
    /\ Len(frames) = 2
    /\ dpc = "ended"
    /\ rest = <<>>
    /\ Len(out) >= 2
    /\ ~NoErrorItem

\* ================================================================ claims C27..
\* an event that the body ends in without its blank line
Unterminated == <<"d", ":", "{", "b", "}">>

\* the step at which the byte source returns None for the first time
SourceEnds == ~eof /\ eof'

\* C27: SSE decoder: when the byte source ends while the buffer is non-empty
\* and holds no delimiter, the leftover is decoded once: non-empty text is
\* yielded as one more chunk and the buffer is cleared, otherwise nothing is
\* yielded and the sequence ends; once the source has ended no step yields an
\* item and the next step ends the sequence; a body whose last event lacks its
\* blank line yields that event's text as its last chunk.
C27_LeftoverDecodedOnce ==
    /\ [][ (dkind = "groq" /\ SourceEnds /\ buffer # <<>>)
             => IF process_sse_message(buffer).some
                THEN /\ out' = Append(out, OkItem(process_sse_message(buffer).text))
                     /\ buffer' = <<>>
                     /\ dpc' = "poll"
                ELSE /\ out' = out
                     /\ dpc' = "ended" ]_vars
    /\ [][ (dkind = "groq" /\ eof) => (out' = out /\ dpc' = "ended") ]_vars
    /\ []( (/\ dkind = "groq"
            /\ frames # <<>>
            /\ frames[Len(frames)] = Unterminated
            /\ \A i \in 1..(Len(frames) - 1) : FindDelimiter(frames[i]) = Len(frames[i]) - 1
            /\ ~faulted
            /\ NoErrorItem
            /\ dpc = "ended")
             => out = ExpectedChunks(SubSeq(frames, 1, Len(frames) - 1))
                          \o <<OkItem(<<"b">>)>> )

\* a content event followed by an event without its blank line, decoded to the
\* end: the leftover's text is the last chunk
C27_Witness ==
    /\ dkind = "groq"
    /\ Len(frames) = 2
    /\ frames[2] = Unterminated
    /\ frames[1] \in GroqWellFormed
    /\ EventContent(frames[1]) # <<>>
    /\ eof
    /\ dpc = "ended"
    /\ out = <<OkItem(EventContent(frames[1])), OkItem(<<"b">>)>>

\* a data line with content comes before the data line that fails to parse
ContentBeforeBadLine(message_block) ==
    LET ds == DataLines(message_block) IN
    \E i \in 1..Len(ds) :
        /\ ds[i] \notin {SSE_DONE, <<>>}
        /\ ~ParseChatCompletionChunk(ds[i]).ok
        /\ \A j \in 1..(i - 1) : ds[j] # SSE_DONE
        /\ \E j \in 1..(i - 1) :
              ParseChatCompletionChunk(ds[j]).ok /\ ParseChatCompletionChunk(ds[j]).text # <<>>

\* the pieces of the body other than the event with the bad line
OtherEvents == SelectSeq(frames, LAMBDA f : f # GroqPartlyValid)

HeadValues(b) == {v \in GeminiValues : IsPrefix(v, TrimStart(b))}

\* the bytes of the buffer up to the end of its head value v
Occupied(b, v) == (Len(b) - Len(TrimStart(b))) + Len(v)

\* the chunks of a sequence of arrays, those without text suppressed
RECURSIVE ArrayChunks(_)
ArrayChunks(fs) ==
    IF fs = <<>> THEN <<>>
    ELSE (IF ResponseOf(Head(fs)) = <<>> THEN <<>>
          ELSE <<OkItem(ResponseOf(Head(fs)))>>) \o ArrayChunks(Tail(fs))

\* C29: array decoder: decoding a value whose elements carry no text yields no
\* item, chunk or error, leaves the sequence open and keeps the bytes after
\* the value; an element without text adds nothing to the chunk of its array;
\* of a well-formed body the chunks yielded are those of the values that have
\* text, in order, also after a value without text.
C29_AbsentTextYieldsNothing ==
    /\ [][ (dkind = "gemini" /\ dpc = "poll")
             => \A v \in HeadValues(buffer) :
                   /\ dpc' = "poll"
                   /\ buffer' = SubSeq(buffer, Occupied(buffer, v) + 1, Len(buffer))
                   /\ out' = IF ResponseOf(v) = <<>> THEN out
                             ELSE Append(out, OkItem(ResponseOf(v))) ]_vars
    /\ []( (dkind = "gemini" /\ WellFormed /\ ~faulted)
             => /\ NoErrorItem
                /\ dpc = "ended" => out = ArrayChunks(frames) )

\* a value without text followed by a value with text, decoded to the end:
\* the second value's chunk is the only item
C29_Witness ==
    /\ dkind = "gemini"
    /\ Len(frames) = 2
    /\ frames[1] = <<"[", "{", "}", "]">>
    /\ frames[2] \in GeminiWellFormed
    /\ ResponseOf(frames[2]) # <<>>
    /\ ~faulted
    /\ dpc = "ended"
    /\ out = <<OkItem(ResponseOf(frames[2]))>>

\* the bytes received and not yet decoded, followed by those still to come
Undecoded == buffer \o rest

\* C30: array decoder: a successful decode of a value that occupies the first
\* k bytes of the buffer leaves the buffer without exactly those k bytes; an
\* iteration that runs out of bytes leaves the buffer as it is; a read only
\* appends the bytes it received to the end of the buffer; so, for a
\* well-formed body, the text yielded so far followed by the text of the bytes
\* not yet decoded is the text of the body: no byte is decoded twice or skipped.
C30_BufferAdvancesExactly ==
    /\ [][ (dkind = "gemini" /\ dpc = "poll")
             => /\ \A v \in HeadValues(buffer) :
                      \E k \in 1..Len(buffer) :
                          /\ k = Occupied(buffer, v)
                          /\ Len(buffer') = Len(buffer) - k
                          /\ \A i \in 1..Len(buffer') : buffer'[i] = buffer[k + i]
                /\ ProperPrefixOfValue(TrimStart(buffer)) => buffer' = buffer ]_vars
    /\ [][ (dkind = "gemini" /\ dpc = "read")
             => /\ IsPrefix(buffer, buffer')
                /\ ~faulted' => buffer' \o rest' = Undecoded ]_vars
    /\ []( (dkind = "gemini" /\ WellFormed /\ ~faulted)
             => ConcatOk(out) \o ResponseOf(Undecoded) = ResponseOf(Payload) )

\* a two-array body after the first array has been decoded and yielded, with a
\* part of the second array waiting in the buffer for the next read
C30_Witness ==
    /\ dkind = "gemini"
    /\ WellFormed
    /\ ~faulted
    /\ Len(frames) = 2
    /\ out = <<OkItem(ResponseOf(frames[1]))>>
    /\ ProperPrefixOfValue(buffer)
    /\ dpc = "read"
    /\ rest # <<>>

\* ================================================================ claims C31..
\* the decoders whose unfold is followed by the filter_map
Filtered == dkind \in {"groq", "gemini"}

\* the step is a read that the byte source answers with a transport error
TransportError == ~faulted /\ faulted'

\* the step is a groq read whose bytes are not valid UTF-8 on their own
BadUtf8Read ==
    /\ dkind = "groq"
    /\ dpc = "poll"
    /\ FindDelimiter(buffer) = 0
    /\ Len(rest') < Len(rest)
    /\ ~faulted'
    /\ ~ValidUtf8(SubSeq(rest, 1, Len(rest) - Len(rest')))

\* C31: the chunk sequences of the SSE decoder and of the array decoder never
\* hold an Ok item with empty text, for every body and every split into reads
\* (the empty Ok the array decoder returns after each read, events and values
\* without content are dropped), and every error item reaches the caller: a
\* transport error, a read that is not valid UTF-8, a JSON syntax error each
\* add one error item to the sequence.
C31_NoEmptyChunk ==
    /\ []( Filtered => \A i \in 1..Len(out) : out[i].ok => out[i].text # <<>> )
    /\ [][ (Filtered /\ TransportError) => out' = Append(out, ErrItem("Request")) ]_vars
    /\ [][ BadUtf8Read => out' = Append(out, ErrItem("Provider")) ]_vars
    /\ [][ (dkind = "gemini" /\ dpc = "poll"
              /\ StreamDeserializerNext(buffer).kind = "syntax")
             => out' = Append(out, ErrItem("Json")) ]_vars
    /\ [][ (dkind = "gemini" /\ dpc = "read" /\ Len(rest') < Len(rest) /\ ~faulted')
             => out' = out ]_vars

\* the array decoder after a value without text, a value with text and a
\* transport error: one chunk and the error item, nothing for the reads
C31_Witness ==
    /\ dkind = "gemini"
    /\ Len(frames) = 2
    /\ frames[1] = <<"[", "{", "}", "]">>
    /\ ResponseOf(frames[2]) # <<>>
    /\ faulted
    /\ out = <<OkItem(ResponseOf(frames[2])), ErrItem("Request")>>

\* ================================================================ AppState
\* a caller makes at most MaxCalls set_provider calls
MaxCalls == 2

\* names a caller passes to set_provider
NameInputs == {"ollama", "groq", "gemini", " Groq", "nope"}

\* provider_name.trim().to_lowercase() (line 126)
provider_name_lower(provider_name) ==
    IF provider_name = " Groq" THEN "groq" ELSE provider_name

\* lists get_models can return for a provider
ModelLists(p) ==
    {<<>>, <<ModelName(p)>>, <<ModelName(p) \o <<"b">>, ModelName(p)>>}

\* results of a set_provider call
SetProviderErrors == {"UnknownProvider", "NotReady"}

\* the latest set_provider call of caller c
CallOf(c) == IF c \in DOMAIN sp THEN sp[c] ELSE NoCall

\* sp with caller c's call replaced by call
Put(c, call) == [d \in DOMAIN sp \cup {c} |-> IF d = c THEN call ELSE sp[d]]

\* lines 125-127: a caller enters set_provider; the registry lookup
SetProviderCall(c) ==
    /\ CallOf(c).pc \in {"idle", "done"}
    /\ CallOf(c).n < MaxCalls
    /\ \E provider_name \in NameInputs :
          LET name == provider_name_lower(provider_name)
              call == [NoCall EXCEPT !.name = name, !.n = CallOf(c).n + 1]
          IN sp' = Put(c, IF name \in Providers
                          THEN [call EXCEPT !.pc = "readiness"]
                          ELSE [call EXCEPT !.pc = "done", !.result = "UnknownProvider"])
    /\ UNCHANGED <<current_provider, current_model>>
    /\ UNCHANGED <<replVars, decVars>>

\* line 128: provider.check_readiness().await and the ? after it
SetProviderReadiness(c) ==
    /\ CallOf(c).pc = "readiness"
    /\ sp' = Put(c, IF CheckReadiness(CallOf(c).name, api_key) = "Ok"
                     THEN [sp[c] EXCEPT !.pc = "select", !.checked = TRUE]
                     ELSE [sp[c] EXCEPT !.pc = "done", !.result = "NotReady"])
    /\ UNCHANGED <<current_provider, current_model>>
    /\ UNCHANGED <<replVars, decVars>>

\* lines 129-131 and 137: under the current_provider lock, the name is
\* compared and stored; the guard is dropped before get_models
SetProviderSelect(c) ==
    /\ CallOf(c).pc = "select"
    /\ IF current_provider # CallOf(c).name
       THEN /\ current_provider' = CallOf(c).name
            /\ sp' = [sp EXCEPT ![c].pc = "get_models", ![c].wrote = TRUE]
       ELSE /\ current_provider' = current_provider
            /\ sp' = [sp EXCEPT ![c].pc = "done", ![c].result = "Ok"]
    /\ UNCHANGED current_model
    /\ UNCHANGED <<replVars, decVars>>

\* lines 132-136: provider.get_models().await returns
SetProviderModels(c) ==
    /\ CallOf(c).pc = "get_models"
    /\ \E cond \in Conds, ms \in ModelLists(CallOf(c).name) :
          sp' = Put(c, IF GetModels(CallOf(c).name, api_key, cond) = "Ok" /\ ms # <<>>
                       THEN [sp[c] EXCEPT !.pc = "set_model", !.models = ms]
                       ELSE [sp[c] EXCEPT !.pc = "done", !.result = "Ok"])
    /\ UNCHANGED <<current_provider, current_model>>
    /\ UNCHANGED <<replVars, decVars>>

\* line 133 and line 120: set_model(&models[0]) under the current_model lock
SetProviderSetModel(c) ==
    /\ CallOf(c).pc = "set_model"
    /\ current_model' = Trim(CallOf(c).models[1])
    /\ sp' = [sp EXCEPT ![c].pc = "done", ![c].result = "Ok"]
    /\ UNCHANGED current_provider
    /\ UNCHANGED <<replVars, decVars>>

\* a process in which the credentials may be missing and callers (the REPL
\* and REST /command requests) run set_provider
StateInit ==
    /\ api_key \in [KeyedProviders -> BOOLEAN]
    /\ ConvoIdle
    /\ DecoderOff
    /\ AppNew

StateNext ==
    \E c \in Callers :
        \/ SetProviderCall(c)
        \/ SetProviderReadiness(c)
        \/ SetProviderSelect(c)
        \/ SetProviderModels(c)
        \/ SetProviderSetModel(c)

StateSpec == StateInit /\ [][StateNext]_vars

StateTypeOK ==
    /\ current_provider \in Providers
    /\ current_model \in UNION {{Trim(ms[i]) : i \in 1..Len(ms)} : ms \in UNION {ModelLists(p) : p \in Providers}}
    /\ \A c \in Callers :
          /\ CallOf(c).pc \in {"idle", "readiness", "select", "get_models", "set_model", "done"}
          /\ CallOf(c).n \in 0..MaxCalls
          /\ CallOf(c).name \in Providers \cup {"none", "nope"}

\* ================================================================ claims C32..
\* the name of caller c's call is not registered or its provider lacks its
\* credential
CannotSelect(c) ==
    CallOf(c).name \notin Providers \/ ~HasKey(api_key, CallOf(c).name)

\* C32: a set_provider call whose name is not registered, or whose provider's
\* readiness check fails, returns an error (UnknownProvider, NotReady) and at
\* no point writes current_provider or current_model; the step that returns
\* the error leaves both as they are; and a call writes the selection only
\* after its readiness check has passed.
C32_FailedCallChangesNothing ==
    /\ []( \A c \in Callers :
             /\ (CallOf(c).pc # "idle" /\ CannotSelect(c)) => ~CallOf(c).wrote
             /\ (CallOf(c).pc = "done" /\ CannotSelect(c))
                   => CallOf(c).result \in SetProviderErrors
             /\ CallOf(c).result \in SetProviderErrors => ~CallOf(c).wrote
             /\ CallOf(c).wrote => CallOf(c).checked )
    /\ [][ \A c \in Callers :
             (CallOf(c)' # CallOf(c) /\ CallOf(c)'.result \in SetProviderErrors)
                => (current_provider' = current_provider
                    /\ current_model' = current_model) ]_vars

\* one call was refused for a missing credential and one for an unknown name;
\* the selection is the one AppState started with
C32_Witness ==
    /\ CallOf(1).pc = "done"
    /\ CallOf(1).name = "groq"
    /\ CallOf(1).result = "NotReady"
    /\ CallOf(2).pc = "done"
    /\ CallOf(2).result = "UnknownProvider"
    /\ current_provider = "ollama"
    /\ current_model = ModelName("ollama")

\* ---------------------------------------------------------------- liveness
\* the steps of the task that runs run_conversation_loop
SessionStep ==
    \/ SeedSession
    \/ ObserveStop
    \/ ReturnInterrupted
    \/ BeginTurn
    \/ StreamOpened
    \/ StreamUnavailable
    \/ StreamChunk
    \/ StreamFlushFails
    \/ StreamItemError
    \/ StreamEnds
    \/ QuerySucceeds
    \/ QueryFails
    \/ QueryPanics
    \/ NextTurn
    \/ FinishMaxTurns

\* the runtime keeps running the task, provider calls and chunk sequences
\* come back, the sleep of line 250 ends
LiveInit ==
    /\ api_key = [p \in KeyedProviders |-> TRUE]
    /\ STOP_CONVERSATION_FLAG \in BOOLEAN
    /\ sig_at = IF STOP_CONVERSATION_FLAG THEN [turn |-> -1, at |-> "idle"] ELSE NoSignal
    /\ pc = "entered"
    /\ llm1 \in {i \in Instances(api_key) :
                    i.model \in ModelsOf(i.provider) /\ i.persona = <<"P">>}
    /\ llm2 \in {i \in Instances(api_key) :
                    i.model \in ModelsOf(i.provider) /\ i.persona = <<"Q">>}
    /\ setup = <<llm1, llm2>>
    /\ max_turns \in 1..MaxTurnsBound
    /\ history = <<>>
    /\ current_speaker_idx = 0
    /\ turn = 0
    /\ full_response = <<>>
    /\ items = 0
    /\ outcome = "none"
    /\ calls = <<>>
    /\ err_turns = {}
    /\ chunks = <<>>
    /\ DecoderOff
    /\ AppNew

LiveNext == Signal \/ SessionStep

LiveSpec == LiveInit /\ [][LiveNext]_vars /\ WF_vars(SessionStep)

\* run_conversation_loop has returned
Finished == pc = "done" /\ outcome \in {"MaxTurnsReached", "Cancelled", "Error", "IoError"}

\* C33: if every provider call returns (none panics) and every chunk sequence
\* ends, every session that entered run_conversation_loop reaches a return of
\* it, whatever max_turns is and whenever signals set the flag.
C33_SessionFinishes ==
    [](pc # "panicked") => [](pc = "entered" => <>Finished)

\* a session with signals during its turns that returned after the last turn
C33_Witness ==
    /\ Finished
    /\ max_turns = MaxTurnsBound
    /\ turn = max_turns
    /\ STOP_CONVERSATION_FLAG = FALSE
    /\ sig_at.at \in InFlight

\* the flag went up during the last turn of the session, after that turn's
\* flag check, or during the sleep that follows it
LastTurnSignal ==
    /\ sig_at.turn = max_turns - 1
    /\ sig_at.at \in InFlight \cup {"sleep"}

\* C34: when the flag goes up during the last turn or during the sleep after
\* it, no later turn boundary samples it: the flag stays set until the loop is
\* left, the session is never interrupted, and once the last turn has appended
\* its message the session returns MaxTurnsReached, by the step that clears
\* the flag, so the signal is gone when the session is over.
C34_LateSignalDiscarded ==
    /\ []( LastTurnSignal =>
             /\ pc # "interrupted"
             /\ outcome # "Cancelled"
             /\ pc \in InTurn => STOP_CONVERSATION_FLAG
             /\ pc = "top" => turn = max_turns
             /\ (pc = "done" /\ SignalledTurnAppended)
                   => (outcome = "MaxTurnsReached" /\ ~STOP_CONVERSATION_FLAG) )
    /\ [][ (LastTurnSignal /\ pc = "top")
             => (pc' = "done" => (outcome' = "MaxTurnsReached"
                                  /\ ~STOP_CONVERSATION_FLAG')) ]_vars

\* a session of MaxTurnsBound turns that was signalled in the sleep after its
\* last turn and returned MaxTurnsReached with the flag cleared
C34_Witness ==
    /\ pc = "done"
    /\ max_turns = MaxTurnsBound
    /\ LastTurnSignal
    /\ sig_at.at = "sleep"
    /\ outcome = "MaxTurnsReached"
    /\ ~STOP_CONVERSATION_FLAG

\* the step is a return of run_conversation_loop
Returns == pc # "done" /\ pc' = "done"

\* C35 (as claimed): every return of run_conversation_loop, whatever its
\* reason, leaves the flag cleared: the reset comes after the last sample of
\* the flag and before the return.
C35_AsClaimed == [][ Returns => ~STOP_CONVERSATION_FLAG' ]_vars

\* the rendering of the two seed entries for agent-A's persona and a topic
SeedText(topic) ==
    PromptText(<< [role |-> "system", content |-> setup[1].persona],
                  [role |-> "user", content |-> topic] >>)

\* the pieces of text a sequence is made of
Range(text) == {text[k] : k \in 1..Len(text)}

\* C36: every prompt a step sends to either agent starts with the system entry
\* carrying agent-A's persona followed by the user entry with the topic, and
\* when the two personas differ no text of agent-B's persona is in it; the
\* transcript has no other system or user entry, only the agents' messages.
C36_OnlyPersonaA ==
    /\ []( pc \in InTurn =>
             /\ history[1] = [role |-> "system", content |-> setup[1].persona]
             /\ history[2].role = "user"
             /\ \A k \in 3..Len(history) : history[k].role \in {"LLM_1", "LLM_2"} )
    /\ [][ \A i \in DOMAIN calls' :
             (i \notin DOMAIN calls \/ calls'[i] # calls[i]) =>
                /\ \E topic \in Topics : IsPrefix(SeedText(topic)', calls'[i].prompt)
                /\ Range(setup'[1].persona) \cap Range(setup'[2].persona) = {}
                      => Range(calls'[i].prompt) \cap Range(setup'[2].persona) = {} ]_vars

\* agent B, whose persona differs from agent A's, has been prompted in turn 1
C36_Witness ==
    /\ setup[1].persona # setup[2].persona
    /\ \E i \in DOMAIN calls :
          /\ calls[i].role = "LLM_2"
          /\ calls[i].turn = 1
          /\ calls[i].provider = setup[2].provider

\* both callers have made one set_provider call, for different providers, and
\* both calls have returned Ok after get_models listed at least one model
BothSelected ==
    /\ \A c \in Callers :
          /\ CallOf(c).pc = "done"
          /\ CallOf(c).n = 1
          /\ CallOf(c).result = "Ok"
          /\ CallOf(c).models # <<>>
    /\ CallOf(1).name # CallOf(2).name

\* C37 (as claimed): after two concurrent set_provider calls for different
\* ready providers that each list a model have both completed, the current
\* model is the first model listed by the current provider.
C37_AsClaimed ==
    BothSelected =>
        \A c \in Callers :
            CallOf(c).name = current_provider => current_model = Trim(CallOf(c).models[1])

\* an array cut off before its end
Truncated == <<"[", "{", "b", "}">>

\* the pieces of the body before its last one
FrontFrames == SubSeq(frames, 1, Len(frames) - 1)

\* C38: array decoder: when the byte source ends while the buffer holds a
\* proper prefix of a value, the step yields nothing and ends the sequence; a
\* body whose last array is cut off yields exactly the items of the body
\* without that array, none of them an error, so the caller cannot tell the
\* truncated response from a complete one; the cut-off bytes are left in the
\* buffer, after any whitespace that followed the last complete array.
C38_TruncationIsSilent ==
    /\ [][ (dkind = "gemini" /\ dpc = "read" /\ SourceEnds
              /\ ProperPrefixOfValue(TrimStart(buffer)))
             => (out' = out /\ dpc' = "ended" /\ buffer' = buffer) ]_vars
    /\ []( (/\ dkind = "gemini"
            /\ frames # <<>>
            /\ frames[Len(frames)] = Truncated
            /\ \A i \in 1..(Len(frames) - 1) : frames[i] \in GeminiWellFormed
            /\ ~faulted
            /\ dpc = "ended")
             => /\ NoErrorItem
                /\ out = ArrayChunks(FrontFrames)
                /\ TrimStart(buffer) = Truncated )

\* a complete array followed by a cut-off one, decoded to the end of the
\* source: one chunk, no error, the cut-off bytes still in the buffer
C38_Witness ==
    /\ dkind = "gemini"
    /\ Len(frames) = 2
    /\ frames[1] \in GeminiWellFormed
    /\ ResponseOf(frames[1]) # <<>>
    /\ frames[2] = Truncated
    /\ eof
    /\ dpc = "ended"
    /\ buffer = Truncated
    /\ out = <<OkItem(ResponseOf(frames[1]))>>

============================================================================
